---------------------------- MODULE Spec2Model ----------------------------
(***************************************************************************)
(* A model of the sparse methylation-matrix engine of scbs                 *)
(* (src/scbs/scbs.py): ingestion (prepare), the baseline smoother, the     *)
(* region statistics engine, the peak caller and the genome scanner.       *)
(*                                                                         *)
(* Arrays are modelled as sequences; the element the code calls a[k]       *)
(* (0-based) is the sequence element a[k+1].  Floating-point numbers are   *)
(* modelled as exact rationals <<num, den>> with den > 0 in lowest terms;  *)
(* the floating-point value NaN is the pair <<0, 0>>.                      *)
(***************************************************************************)
EXTENDS Integers, Sequences, FiniteSets, TLC

VARIABLES
    \* ---- prepare / _dump_coo_files ----
    prep_pc,        \* position of prepare: start, dump, assemble, write, done, error
    input_files,    \* the file names given to prepare, in order
    coverage,       \* column layout: TRUE = 4th column is total coverage
    cell_names,     \* result of _get_cell_names
    cell_n,         \* index of the file being read (enumerate(fpaths))
    line_n,         \* number of records read from the current file
    line,           \* the record last read from the current file, as in the file
    coo_files,      \* keys of the dict coo_files, in insertion order
    coo_disk,       \* the .coo staging files on disk: chrom -> lines written
    chrom_sizes,    \* dict chrom_sizes
    asm_i,          \* how many chromosomes prepare has assembled
    npz,            \* the persisted stores: chrom -> CSR matrix
    n_obs_cell,     \* summary statistics
    n_meth_cell,
    column_header,  \* the persisted Cell Index (column_header.txt)
    \* ---- Smoother ----
    sm_pc,          \* position of the smoother: new, smoothing, returned
    sm_mat,         \* the store being smoothed
    sm_bandwidth,      \* the smoothing sm_bandwidth
    sm_hbw,            \* Smoother.sm_hbw
    sm_kernel,         \* Smoother.sm_kernel
    mfracs,         \* Smoother.mfracs
    cpg_pos,        \* Smoother.cpg_pos
    sm_k,           \* positions of cpg_pos already smoothed
    smoothed,       \* the dict smoothed of smooth_whole_chrom
    \* ---- region statistics engine ----
    reg_mat,        \* the store that is queried
    reg_smoothed,  \* its Smoothed Track: position -> value
    reg_call,       \* the last call: function, start, end
    reg_out,        \* what the last call returned
    \* ---- _find_peaks ----
    fp_pc,          \* position of _find_peaks: loop, returned, assertion_failed
    fp_vars,  \* argument: the window variances
    fp_centers,     \* argument: the window positions
    fp_cutoff,     \* argument: the variance threshold
    fp_half_bw,        \* argument: the half-sm_bandwidth
    fp_i,           \* windows already processed
    in_peak,
    peak_starts,
    peak_ends,
    \* ---- scan ----
    scan_pc,        \* position of scan: start, load, windows, threshold,
                    \* peaks, write, done, error
    data_dir,       \* the dataset directory: chrom -> store, size, track
    scan_bandwidth, \* argument: bandwidth
    scan_stepsize,  \* argument: stepsize
    scan_var_threshold, \* argument: var_threshold
    chrom_paths,    \* the stores, largest file first
    scan_i,         \* chromosomes already scanned
    var_threshold_value,
    scan_mat,       \* mat, the store of the current chromosome
    smoothed_cpg_vals,
    genomic_positions,
    window_variances,
    output,         \* the records written to the output
    \* ---- matrix ----
    mx_pc,          \* position of matrix: loop, done, not_sorted, no_track,
                    \* no_regions, key_error
    mx_dir,         \* the dataset directory: chrom -> store, track
    regions,        \* the entries of the bed file
    mx_i,           \* bed entries already handled
    observed_chroms,
    unknown_chroms,
    prev_chrom,
    n_regions,
    n_empty_regions,
    mx_mat,         \* mat, the store loaded last
    mx_smoothed_vals,
    mx_output,      \* the lines written to the output
    mx_warnings,    \* the chromosomes _load_chrom_mat warned about
    \* ---- two queries of the region statistics engine ----
    ord_mat,        \* data_chrom, indices_chrom, indptr_chrom as they are now
    ord_smoothed,   \* smoothed_vals as it is now
    ord_mat0,       \* the arrays as they were before the first call
    ord_smoothed0,  \* the mapping as it was before the first call
    ord_queries,    \* the intervals, in the order they are queried
    ord_k,          \* queries made
    ord_results,    \* what the queries returned, in order
    \* ---- _move_windows, its loop run by parallel workers ----
    par_pc,         \* run, returned
    par_mat,        \* data_chrom, indices_chrom, indptr_chrom as they are now
    par_smoothed,   \* smoothed_vals as it is now
    par_mat0,       \* the arrays as they were given
    par_smoothed0,  \* the mapping as it was given
    par_half_bw,
    par_windows,    \* windows, the window positions
    par_owner,      \* iteration -> the worker it is given to
    par_smoothed_var, \* smoothed_var, the output array
    par_taken,      \* the iterations started
    par_local,      \* worker -> the window it evaluated and has yet to store
    par_writes      \* slot -> the iterations that wrote it, in order

prepVars == <<prep_pc, input_files, coverage, cell_names, cell_n, line_n,
              line, coo_files, coo_disk, chrom_sizes, asm_i, npz,
              n_obs_cell, n_meth_cell, column_header>>

smoothVars == <<sm_pc, sm_mat, sm_bandwidth, sm_hbw, sm_kernel, mfracs, cpg_pos, sm_k,
                smoothed>>

regionVars == <<reg_mat, reg_smoothed, reg_call, reg_out>>

peakVars == <<fp_pc, fp_vars, fp_centers, fp_cutoff, fp_half_bw, fp_i,
              in_peak, peak_starts, peak_ends>>

scanVars_but_pc == <<data_dir, scan_bandwidth, scan_stepsize,
                     scan_var_threshold,
                     chrom_paths, scan_i, var_threshold_value, scan_mat,
                     smoothed_cpg_vals, genomic_positions, window_variances,
                     output>>

scanVars == <<scan_pc, scanVars_but_pc>>

matrixVars == <<mx_pc, mx_dir, regions, mx_i, observed_chroms, unknown_chroms,
                prev_chrom, n_regions, n_empty_regions, mx_mat,
                mx_smoothed_vals, mx_output, mx_warnings>>

orderVars == <<ord_mat, ord_smoothed, ord_mat0, ord_smoothed0, ord_queries,
               ord_k, ord_results>>

parVars == <<par_pc, par_mat, par_smoothed, par_mat0, par_smoothed0,
             par_half_bw, par_windows, par_owner, par_smoothed_var, par_taken,
             par_local, par_writes>>

vars == <<prepVars, smoothVars, regionVars, peakVars, scanVars, matrixVars,
          orderVars, parVars>>

\* what each component leaves alone
notOfPrepare ==
    <<smoothVars, regionVars, peakVars, scanVars, matrixVars, orderVars, parVars>>

notOfSmooth ==
    <<prepVars, regionVars, peakVars, scanVars, matrixVars, orderVars, parVars>>

notOfRegion ==
    <<prepVars, smoothVars, peakVars, scanVars, matrixVars, orderVars, parVars>>

notOfPeaks ==
    <<prepVars, smoothVars, regionVars, scanVars, matrixVars, orderVars, parVars>>

\* scan calls _find_peaks
notOfScan ==
    <<prepVars, smoothVars, regionVars, peakVars, matrixVars, orderVars, parVars>>

notOfMatrix ==
    <<prepVars, smoothVars, regionVars, peakVars, scanVars, orderVars, parVars>>

notOfOrder ==
    <<prepVars, smoothVars, regionVars, peakVars, scanVars, matrixVars, parVars>>

notOfPar ==
    <<prepVars, smoothVars, regionVars, peakVars, scanVars, matrixVars, orderVars>>

-----------------------------------------------------------------------------
(* Bounds of the model *)

\* most records read from one input file
MaxLines == 2
\* largest genomic position in an input record
MaxPos == 2
\* largest read count in an input record's count columns
MaxCount == 2
\* cells of the stores that are smoothed and queried
NCells == 3
\* most entries of a store that is smoothed or queried
MaxEntries == 3
\* largest smoothing bandwidth
MaxBandwidth == 5
\* largest value read from a name that was never assigned
MaxUnassigned == 1
\* most windows handed to _find_peaks
MaxWindows == 5
\* largest window step size
MaxStep == 3
\* largest half-bandwidth of the scanner
MaxHalfBw == 2
\* largest size of a persisted store's file
MaxFileSize == 2
\* the bandwidth the Smoothed Tracks of a scanned dataset were written with
TrackBandwidth == 2

-----------------------------------------------------------------------------
(* Arithmetic: integers of fixed width, exact rationals with NaN *)

Int8(x) == ((x + 128) % 256) - 128

Abs(x) == IF x < 0 THEN -x ELSE x

RECURSIVE Gcd(_, _)
Gcd(a, b) == IF b = 0 THEN a ELSE Gcd(b, a % b)

NaN == <<0, 0>>

IsNaN(q) == q[2] = 0

\* the float n / d of two integers (np.divide): 0 / 0 is NaN
Rat(n, d) ==
    IF d = 0 THEN NaN
    ELSE LET g == Gcd(Abs(n), Abs(d))
             s == IF d < 0 THEN -1 ELSE 1
         IN  <<(s * n) \div g, (s * d) \div g>>

RatInt(n) == <<n, 1>>

\* sums are taken over the least common denominator
RatAdd(a, b) ==
    IF IsNaN(a) \/ IsNaN(b) THEN NaN
    ELSE LET g == Gcd(a[2], b[2])
         IN  Rat(a[1] * (b[2] \div g) + b[1] * (a[2] \div g),
                 (a[2] \div g) * b[2])

RatNeg(a) == <<-a[1], a[2]>>

RatSub(a, b) == RatAdd(a, RatNeg(b))

RatMul(a, b) ==
    IF IsNaN(a) \/ IsNaN(b) THEN NaN
    ELSE Rat(a[1] * b[1], a[2] * b[2])

\* a / b; only used with b # 0 or with a = b = 0 (which is NaN)
RatDiv(a, b) ==
    IF IsNaN(a) \/ IsNaN(b) THEN NaN
    ELSE Rat(a[1] * b[2], a[2] * b[1])

\* a > b as floats compare: FALSE when either side is NaN
RatGt(a, b) ==
    /\ ~IsNaN(a)
    /\ ~IsNaN(b)
    /\ a[1] * b[2] > b[1] * a[2]

-----------------------------------------------------------------------------
(* Arrays (0-based) as sequences *)

At(arr, k) == arr[k + 1]

\* arr[a:b] for 0 <= a
Slice(arr, a, b) ==
    LET hi == IF b > Len(arr) THEN Len(arr) ELSE b
    IN  IF a >= hi THEN <<>> ELSE SubSeq(arr, a + 1, hi)

Last(s) == s[Len(s)]

Front(s) == SubSeq(s, 1, Len(s) - 1)

RECURSIVE SumSeq(_)
SumSeq(s) == IF s = <<>> THEN 0 ELSE s[1] + SumSeq(Tail(s))

Range(s) == {s[k] : k \in 1..Len(s)}

-----------------------------------------------------------------------------
(* The Sparse Chromosome Store: a CSR matrix *)

\* the values of the staged triples <<pos, cell, value>> at one coordinate
RECURSIVE ValuesAt(_, _, _)
ValuesAt(triples, r, c) ==
    IF triples = <<>> THEN <<>>
    ELSE LET t == triples[1]
             rest == ValuesAt(Tail(triples), r, c)
         IN  IF t[1] = r /\ t[2] = c THEN <<t[3]>> \o rest ELSE rest

\* sum_duplicates on an int8 matrix: the sum wraps at 8 bits
RECURSIVE SumInt8(_)
SumInt8(s) == IF s = <<>> THEN 0 ELSE Int8(s[1] + SumInt8(Tail(s)))

\* the stored entries <<column, value>> of row r, columns c..ncols-1, in
\* column order; a coordinate named by any triple is stored, whatever the sum
RECURSIVE RowEntries(_, _, _, _)
RowEntries(triples, r, c, ncols) ==
    IF c >= ncols THEN <<>>
    ELSE LET vs == ValuesAt(triples, r, c)
             rest == RowEntries(triples, r, c + 1, ncols)
         IN  IF vs = <<>> THEN rest ELSE <<<<c, SumInt8(vs)>>>> \o rest

\* coo_matrix(..., shape=(nrows, ncols), dtype=int8).tocsr(), rows r..nrows-1
\* appended to the matrix m built so far
RECURSIVE CsrRows(_, _, _, _, _)
CsrRows(triples, r, nrows, ncols, m) ==
    IF r >= nrows THEN m
    ELSE LET es == RowEntries(triples, r, 0, ncols)
         IN  CsrRows(triples, r + 1, nrows, ncols,
                     [data    |-> m.data \o [k \in 1..Len(es) |-> es[k][2]],
                      indices |-> m.indices \o [k \in 1..Len(es) |-> es[k][1]],
                      indptr  |-> Append(m.indptr, Last(m.indptr) + Len(es)),
                      shape   |-> m.shape])

coo_to_csr(triples, nrows, ncols) ==
    CsrRows(triples, 0, nrows, ncols,
            [data |-> <<>>, indices |-> <<>>, indptr |-> <<0>>,
             shape |-> <<nrows, ncols>>])

\* mat.getnnz(axis=0)[c]: the stored entries of column c
getnnz_col(mat, c) == Cardinality({k \in 1..Len(mat.indices) : mat.indices[k] = c})

\* np.sum(mat > 0, axis=0)[c]
n_positive_col(mat, c) ==
    Cardinality({k \in 1..Len(mat.indices) :
                    mat.indices[k] = c /\ mat.data[k] > 0})

-----------------------------------------------------------------------------
(* prepare *)

Chroms == {"1", "2"}

\* the input file lists the model runs prepare on
InputFileLists ==
    {<<"a.cov">>, <<"a.cov", "b.cov.gz">>, <<"a.cov", "a.tsv.gz">>}

\* os.path.splitext(os.path.basename(f))[0], applied twice to a .gz name
CellNameOf(f) ==
    CASE f = "a.cov"    -> "a"
      [] f = "a.tsv.gz" -> "a"
      [] f = "b.cov.gz" -> "b"

\* different names: the files taken last to first
get_cell_names_reversed(files) ==
    [k \in 1..Len(files) |-> CellNameOf(files[Len(files) + 1 - k])]

get_cell_names(files) == [k \in 1..Len(files) |-> CellNameOf(files[k])]

\* a different test: equal names are accepted
names_unique_always(names) == TRUE

names_unique(names) == Cardinality(Range(names)) = Len(names)

\* the records an input file may hold: chromosome, position, and the two
\* count columns as written in the file
RawLines ==
    [chrom : Chroms, pos : 1..MaxPos, m : 0..(MaxCount - 1), u : 0..MaxCount]

NoLine == [chrom |-> "", pos |-> 0, m |-> 0, u |-> 0]

line_to_values(ln, cov) ==
    [chrom    |-> ln.chrom,
     pos      |-> ln.pos,
     n_meth   |-> ln.m,
     n_unmeth |-> IF cov THEN ln.u - ln.m ELSE ln.u]

\* a different test: a record with both counts nonzero is dropped only when
\* the unmethylated count is the larger
not_clear_majority(n_meth, n_unmeth) == n_meth # 0 /\ n_unmeth > n_meth

\* the test of line 374: the record is not a clear call
not_clear(n_meth, n_unmeth) == n_meth # 0 /\ n_unmeth # 0

meth_value_of(n_meth) == IF n_meth > 0 THEN 1 ELSE -1

ZeroCells(n) == [k \in 1..n |-> 0]

PrepareStart ==
    /\ prep_pc = "start"
    /\ input_files \in InputFileLists
    /\ coverage \in BOOLEAN
    /\ cell_names = <<>>
    /\ cell_n = 0
    /\ line_n = 0
    /\ line = NoLine
    /\ coo_files = <<>>
    /\ coo_disk = <<>>
    /\ chrom_sizes = <<>>
    /\ asm_i = 0
    /\ npz = <<>>
    /\ n_obs_cell = <<>>
    /\ n_meth_cell = <<>>
    /\ column_header = <<>>

\* prepare, lines 408-412: the cell names, fatal when two are equal
GetCellNames ==
    /\ prep_pc = "start"
    /\ LET names == get_cell_names(input_files)
       IN  IF names_unique(names)
           THEN /\ cell_names' = names
                /\ n_obs_cell' = ZeroCells(Len(names))
                /\ n_meth_cell' = ZeroCells(Len(names))
                /\ prep_pc' = "dump"
           ELSE /\ prep_pc' = "error"
                /\ UNCHANGED <<cell_names, n_obs_cell, n_meth_cell>>
    /\ UNCHANGED <<input_files, coverage, cell_n, line_n, line, coo_files,
                   coo_disk, chrom_sizes, asm_i, npz, column_header>>
    /\ UNCHANGED notOfPrepare

\* _dump_coo_files, lines 370-383: one record of the current file
DumpRecord ==
    /\ prep_pc = "dump"
    /\ cell_n < Len(input_files)
    /\ line_n < MaxLines
    /\ \E ln \in RawLines :
         LET v == line_to_values(ln, coverage)
             c == v.chrom
             opened == c \in DOMAIN coo_disk
             size0 == IF opened THEN chrom_sizes[c] ELSE 0
             size1 == IF v.pos > size0 THEN v.pos ELSE size0
             old == IF opened THEN coo_disk[c] ELSE <<>>
         IN  /\ line' = ln
             /\ line_n' = line_n + 1
             /\ IF not_clear(v.n_meth, v.n_unmeth)
                THEN UNCHANGED <<coo_files, coo_disk, chrom_sizes>>
                ELSE /\ coo_files' = IF opened THEN coo_files
                                     ELSE Append(coo_files, c)
                     /\ chrom_sizes' = (c :> size1) @@ chrom_sizes
                     /\ coo_disk' =
                          (c :> Append(old, <<v.pos, cell_n,
                                              meth_value_of(v.n_meth)>>))
                          @@ coo_disk
    /\ UNCHANGED <<prep_pc, input_files, coverage, cell_names, cell_n, asm_i,
                   npz, n_obs_cell, n_meth_cell, column_header>>
    /\ UNCHANGED notOfPrepare

\* _dump_coo_files, line 367: the current file is exhausted
NextFile ==
    /\ prep_pc = "dump"
    /\ cell_n < Len(input_files)
    /\ cell_n' = cell_n + 1
    /\ line_n' = 0
    /\ UNCHANGED <<prep_pc, input_files, coverage, cell_names, line,
                   coo_files, coo_disk, chrom_sizes, asm_i, npz, n_obs_cell,
                   n_meth_cell, column_header>>
    /\ UNCHANGED notOfPrepare

\* _dump_coo_files, lines 384-389: all files are read, the streams are closed
CloseCooFiles ==
    /\ prep_pc = "dump"
    /\ cell_n = Len(input_files)
    /\ prep_pc' = "assemble"
    /\ UNCHANGED <<input_files, coverage, cell_names, cell_n, line_n, line,
                   coo_files, coo_disk, chrom_sizes, asm_i, npz, n_obs_cell,
                   n_meth_cell, column_header>>
    /\ UNCHANGED notOfPrepare

\* prepare, lines 429-450: one chromosome is assembled, saved, its staging
\* file removed.  np.loadtxt gives a 1-D array for a file of one line, and
\* coo[:, 2] then raises IndexError.
AssembleChrom ==
    /\ prep_pc = "assemble"
    /\ asm_i < Len(coo_files)
    /\ LET chrom == coo_files[asm_i + 1]
           coo == coo_disk[chrom]
           n_cells == Len(cell_names)
           mat == coo_to_csr(coo, chrom_sizes[chrom] + 1, n_cells)
       IN  IF Len(coo) = 1
           THEN /\ prep_pc' = "error"
                /\ UNCHANGED <<asm_i, npz, n_obs_cell, n_meth_cell, coo_disk>>
           ELSE /\ npz' = (chrom :> mat) @@ npz
                /\ n_obs_cell' = [k \in 1..n_cells |->
                                    n_obs_cell[k] + getnnz_col(mat, k - 1)]
                /\ n_meth_cell' = [k \in 1..n_cells |->
                                    n_meth_cell[k] + n_positive_col(mat, k - 1)]
                /\ coo_disk' = [x \in (DOMAIN coo_disk) \ {chrom} |-> coo_disk[x]]
                /\ asm_i' = asm_i + 1
                /\ UNCHANGED prep_pc
    /\ UNCHANGED <<input_files, coverage, cell_names, cell_n, line_n, line,
                   coo_files, chrom_sizes, column_header>>
    /\ UNCHANGED notOfPrepare

\* prepare, lines 452-461: the Cell Index and the summary are written
WriteColumnNames ==
    /\ prep_pc = "assemble"
    /\ asm_i = Len(coo_files)
    /\ column_header' = cell_names
    /\ prep_pc' = "done"
    /\ UNCHANGED <<input_files, coverage, cell_names, cell_n, line_n, line,
                   coo_files, coo_disk, chrom_sizes, asm_i, npz, n_obs_cell,
                   n_meth_cell>>
    /\ UNCHANGED notOfPrepare

NextPrepare ==
    \/ GetCellNames
    \/ DumpRecord
    \/ NextFile
    \/ CloseCooFiles
    \/ AssembleChrom
    \/ WriteColumnNames

\* prepare is not running
PrepareIdle ==
    /\ prep_pc = "idle"
    /\ input_files = <<>>
    /\ coverage = FALSE
    /\ cell_names = <<>>
    /\ cell_n = 0
    /\ line_n = 0
    /\ line = NoLine
    /\ coo_files = <<>>
    /\ coo_disk = <<>>
    /\ chrom_sizes = <<>>
    /\ asm_i = 0
    /\ npz = <<>>
    /\ n_obs_cell = <<>>
    /\ n_meth_cell = <<>>
    /\ column_header = <<>>

-----------------------------------------------------------------------------
(* The stores the smoother and the region statistics engine are run on *)

\* the triples <<pos, cell, value>> of the entries e (a function from the
\* coordinates <<pos, cell>> that hold an entry to its value), in any order
RECURSIVE TriplesOf(_, _)
TriplesOf(e, slots) ==
    IF slots = {} THEN <<>>
    ELSE LET s == CHOOSE x \in slots : TRUE
         IN  <<<<s[1], s[2], e[s]>>>> \o TriplesOf(e, slots \ {s})

MaxOf(S) == CHOOSE x \in S : \A y \in S : y <= x

\* the store prepare assembles from the entries e: max position + 1 rows
StoreOfEntries(e, ncols) ==
    coo_to_csr(TriplesOf(e, DOMAIN e), MaxOf({s[1] : s \in DOMAIN e}) + 1, ncols)

\* every store with entries at the given positions only, between one and
\* most entries, each entry -1 or +1
StoresOver(positions, ncols, most) ==
    LET slots == positions \X (0..(ncols - 1))
        held == {S \in SUBSET slots : Cardinality(S) >= 1 /\ Cardinality(S) <= most}
    IN  UNION {{StoreOfEntries(e, ncols) : e \in [S -> {-1, 1}]} : S \in held}

-----------------------------------------------------------------------------
(* class Smoother *)

\* arr[a:b] as Python slices it: a negative bound counts from the end
PySlice(arr, a, b) ==
    LET n == Len(arr)
        clamp(x) == IF x < 0 THEN (IF x + n < 0 THEN 0 ELSE x + n)
                    ELSE (IF x > n THEN n ELSE x)
    IN  Slice(arr, clamp(a), clamp(b))

RatCube(q) == RatMul(q, RatMul(q, q))

\* Smoother.__init__, lines 468-469: kernel[j] for offset d = j - hbw
tricube(d, hbw) == RatCube(RatSub(RatInt(1), RatCube(Rat(Abs(d), hbw))))

kernel_of(bandwidth) ==
    [j \in 1..bandwidth |-> tricube((j - 1) - (bandwidth \div 2), bandwidth \div 2)]

\* mat.getnnz(axis=1)[r]
row_nnz(mat, r) == At(mat.indptr, r + 1) - At(mat.indptr, r)

\* np.sum(mat > 0, axis=1)[r]
row_n_meth(mat, r) ==
    Cardinality({k \in (At(mat.indptr, r) + 1)..At(mat.indptr, r + 1) :
                    mat.data[k] > 0})

\* Smoother.__init__, lines 471-473
mfracs_of(mat) ==
    [k \in 1..mat.shape[1] |-> Rat(row_n_meth(mat, k - 1), row_nnz(mat, k - 1))]

\* the indices r..n-1, ascending, at which the boolean array keep holds
RECURSIVE NonzeroFrom(_, _, _)
NonzeroFrom(keep, r, n) ==
    IF r >= n THEN <<>>
    ELSE (IF keep[r + 1] THEN <<r>> ELSE <<>>) \o NonzeroFrom(keep, r + 1, n)

\* Smoother.__init__, line 474
cpg_pos_of(fracs) ==
    LET defined == [k \in 1..Len(fracs) |-> ~IsNaN(fracs[k])]
    IN  NonzeroFrom(defined, 0, Len(fracs))

\* np.sum over the entries j..Len(window) of window that are not NaN
RECURSIVE KernelSum(_, _, _, _)
KernelSum(window, k, j, weighted) ==
    IF j > Len(window) THEN RatInt(0)
    ELSE LET rest == KernelSum(window, k, j + 1, weighted)
         IN  IF IsNaN(window[j]) THEN rest
             ELSE RatAdd(IF weighted THEN RatMul(window[j], k[j]) ELSE k[j],
                         rest)

\* a different slice: open at the lower end, closed at the upper end
smooth_window_upper_closed(fracs, i, hbw) ==
    PySlice(fracs, i - hbw + 1, i + hbw + 1)

\* the slice of line 484
smooth_window(fracs, i, hbw) == PySlice(fracs, i - hbw, i + hbw)

\* a different smoother: a window shorter than the kernel is smoothed with
\* the kernel's first weights
smooth_at_truncating(fracs, kernel, hbw, i) ==
    LET window == smooth_window(fracs, i, hbw)
    IN  RatDiv(KernelSum(window, kernel, 1, TRUE),
               KernelSum(window, kernel, 1, FALSE))

\* Smoother.smooth_whole_chrom, lines 484-497, for one position i (weigh is
\* False).  kernel[nz] raises IndexError when the window and the kernel
\* differ in length, and the position gets NaN.
smooth_at(fracs, kernel, hbw, i) ==
    LET window == smooth_window(fracs, i, hbw)
    IN  IF Len(window) # Len(kernel) THEN NaN
        ELSE RatDiv(KernelSum(window, kernel, 1, TRUE),
                    KernelSum(window, kernel, 1, FALSE))

\* Smoother(mat, bandwidth).smooth_whole_chrom(): position -> smoothed value
smooth_whole_chrom(mat, bandwidth) ==
    LET fracs == mfracs_of(mat)
        kernel == kernel_of(bandwidth)
    IN  [p \in Range(cpg_pos_of(fracs)) |->
            smooth_at(fracs, kernel, bandwidth \div 2, p)]

-----------------------------------------------------------------------------
(* The region statistics engine *)

AddAt(arr, c, x) == [arr EXCEPT ![c + 1] = @ + x]

\* _count_n_cpg, lines 789-795: over region_indptr[k..], prev_val given
RECURSIVE count_n_cpg_from(_, _, _)
count_n_cpg_from(region_indptr, k, prev_val) ==
    IF k > Len(region_indptr) THEN 0
    ELSE IF region_indptr[k] # prev_val
         THEN 1 + count_n_cpg_from(region_indptr, k + 1, region_indptr[k])
         ELSE count_n_cpg_from(region_indptr, k + 1, prev_val)

count_n_cpg(region_indptr) == count_n_cpg_from(region_indptr, 1, 0)

\* a different increment: the stored value itself, whatever its sign
meth_increment_signed(meth_value) == meth_value

\* what one entry adds to n_meth, lines 820-824
meth_increment(meth_value) == IF meth_value = -1 THEN 0 ELSE meth_value

\* _calc_region_stats, lines 818-824: the loop from entry i on
RECURSIVE region_loop(_, _, _, _)
region_loop(data, indices, i, acc) ==
    IF i > Len(data) THEN acc
    ELSE region_loop(data, indices, i + 1,
            [n_total |-> AddAt(acc.n_total, indices[i], 1),
             n_meth  |-> AddAt(acc.n_meth, indices[i], meth_increment(data[i]))])

\* a different quotient: the methylated count over the number of cells
divide_counts_by_cells(n_meth, n_total) ==
    [k \in 1..Len(n_meth) |-> Rat(n_meth[k], Len(n_total))]

\* np.divide(n_meth, n_total), line 825
divide_counts(n_meth, n_total) ==
    [k \in 1..Len(n_meth) |-> Rat(n_meth[k], n_total[k])]

\* the clipped exclusive end of lines 807-809 and 724-726
clip_end(end, chrom_len) == IF end + 1 > chrom_len THEN chrom_len ELSE end + 1

\* _calc_region_stats, lines 802-825.  n_obs_cpg is assigned on two of the
\* three paths only: assigned tells whether the returned name is bound.
calc_region_stats(data_chrom, indices_chrom, indptr_chrom, start, end, n_cells, chrom_len) ==
    LET zeros == [k \in 1..n_cells |-> 0]
        e == clip_end(end, chrom_len)
        lo == At(indptr_chrom, start)
        hi == At(indptr_chrom, e)
        data == Slice(data_chrom, lo, hi)
        indices == Slice(indices_chrom, lo, hi)
        cut == Slice(indptr_chrom, start, e + 1)
        indptr == [k \in 1..Len(cut) |-> cut[k] - lo]
        sums == region_loop(data, indices, 1, [n_total |-> zeros, n_meth |-> zeros])
    IN  IF start > chrom_len
        THEN [n_meth |-> zeros, n_total |-> zeros,
              mfracs |-> divide_counts(zeros, zeros),
              n_obs_cpg |-> 0, assigned |-> TRUE]
        ELSE IF Len(data) > 0
        THEN [n_meth |-> sums.n_meth, n_total |-> sums.n_total,
              mfracs |-> divide_counts(sums.n_meth, sums.n_total),
              n_obs_cpg |-> count_n_cpg(indptr), assigned |-> TRUE]
        ELSE [n_meth |-> zeros, n_total |-> zeros,
              mfracs |-> divide_counts(zeros, zeros),
              n_obs_cpg |-> 0, assigned |-> FALSE]

\* np.bincount(indices) written into n_obs, lines 738-740
bincount(indices, n_cells) ==
    LET top == MaxOf(Range(indices)) + 1
        counts == [k \in 1..top |->
                     Cardinality({i \in 1..Len(indices) : indices[i] = k - 1})]
    IN  [k \in 1..n_cells |-> IF k <= top THEN counts[k] ELSE 0]

\* lines 749-751: skip the positions without entries
RECURSIVE next_cpg(_, _, _)
next_cpg(indptr_diff, cpg_idx, nobs_cpg) ==
    IF nobs_cpg # 0 THEN <<cpg_idx, nobs_cpg>>
    ELSE next_cpg(indptr_diff, cpg_idx + 1, At(indptr_diff, cpg_idx + 1))

\* _calc_mean_shrunken_residuals, lines 748-758: the loop from entry i on.
\* A position missing from smoothed_vals raises KeyError (acc.raised).
RECURSIVE resid_loop(_, _, _, _, _, _, _)
resid_loop(data, indices, indptr_diff, smoothed_vals, start, i, acc) ==
    IF i > Len(data) \/ acc.raised THEN acc
    ELSE LET at == next_cpg(indptr_diff, acc.cpg_idx, acc.nobs_cpg)
             cell_idx == indices[i]
             key == start + at[1]
         IN  IF key \notin DOMAIN smoothed_vals
             THEN [acc EXCEPT !.raised = TRUE]
             ELSE resid_loop(data, indices, indptr_diff, smoothed_vals, start,
                     i + 1,
                     [cpg_idx     |-> at[1],
                      nobs_cpg    |-> at[2] - 1,
                      smooth_sums |-> [acc.smooth_sums EXCEPT ![cell_idx + 1] =
                                          RatAdd(@, smoothed_vals[key])],
                      meth_sums   |-> AddAt(acc.meth_sums, cell_idx,
                                            meth_increment(data[i])),
                      raised      |-> FALSE])

\* a different residual: an undefined sum of smoothed values counts as zero
shrink_ignoring_nan(meth_sum, smooth_sum, n_obs, shrinkage_factor) ==
    RatDiv(RatSub(RatInt(meth_sum),
                  IF IsNaN(smooth_sum) THEN RatInt(0) ELSE smooth_sum),
           RatInt(n_obs + shrinkage_factor))

\* a different residual: the mean residual, not shrunken
shrink_not(meth_sum, smooth_sum, n_obs, shrinkage_factor) ==
    RatDiv(RatSub(RatInt(meth_sum), smooth_sum), RatInt(n_obs))

\* lines 760-764
shrink(meth_sum, smooth_sum, n_obs, shrinkage_factor) ==
    RatDiv(RatSub(RatInt(meth_sum), smooth_sum), RatInt(n_obs + shrinkage_factor))

\* _calc_mean_shrunken_residuals, lines 721-765, shrinkage_factor = 1
calc_mean_shrunken_residuals(data_chrom, indices_chrom, indptr_chrom, start, end, smoothed_vals, n_cells, chrom_len) ==
    LET nans == [k \in 1..n_cells |-> NaN]
        e == clip_end(end, chrom_len)
        lo == At(indptr_chrom, start)
        hi == At(indptr_chrom, e)
        data == Slice(data_chrom, lo, hi)
        indices == Slice(indices_chrom, lo, hi)
        cut == Slice(indptr_chrom, start, e + 1)
        indptr == [k \in 1..Len(cut) |-> cut[k] - lo]
        indptr_diff == [k \in 1..(Len(indptr) - 1) |-> indptr[k + 1] - indptr[k]]
        n_obs == bincount(indices, n_cells)
        sums == resid_loop(data, indices, indptr_diff, smoothed_vals, start, 1,
                    [cpg_idx     |-> 0,
                     nobs_cpg    |-> At(indptr_diff, 0),
                     smooth_sums |-> [k \in 1..n_cells |-> RatInt(0)],
                     meth_sums   |-> [k \in 1..n_cells |-> 0],
                     raised      |-> FALSE])
    IN  IF start > chrom_len THEN [raised |-> FALSE, resid |-> nans]
        ELSE IF Len(data) = 0 THEN [raised |-> FALSE, resid |-> nans]
        ELSE IF sums.raised THEN [raised |-> TRUE, resid |-> nans]
        ELSE [raised |-> FALSE,
              resid  |-> [k \in 1..n_cells |->
                            IF n_obs[k] > 0
                            THEN shrink(sums.meth_sums[k], sums.smooth_sums[k],
                                        n_obs[k], 1)
                            ELSE NaN]]

-----------------------------------------------------------------------------
(* The genome scanner: peak calling, window variances *)

\* a different test: the candidate start lies strictly before a recorded end
touches_last_peak_strictly(ends, pos, half_bw) ==
    ends # <<>> /\ pos - half_bw < MaxOf(Range(ends))

\* a different test: no peak is ever continued
touches_last_peak_never(ends, pos, half_bw) == FALSE

\* a different test: the window itself, not its extended start, is compared
touches_last_peak_unextended(ends, pos, half_bw) ==
    ends # <<>> /\ pos <= MaxOf(Range(ends))

\* the test of line 660: the candidate start touches a recorded end
touches_last_peak(ends, pos, half_bw) ==
    ends # <<>> /\ pos - half_bw <= MaxOf(Range(ends))

\* a different loop body: a peak is closed at the window's own position
find_peaks_step_raw_end(st, var, pos, var_cutoff, half_bw) ==
    IF RatGt(var, var_cutoff)
    THEN IF ~st.in_peak
         THEN IF touches_last_peak(st.peak_ends, pos, half_bw)
              THEN [in_peak     |-> TRUE,
                    peak_starts |-> st.peak_starts,
                    peak_ends   |-> Front(st.peak_ends)]
              ELSE [in_peak     |-> TRUE,
                    peak_starts |-> Append(st.peak_starts, pos - half_bw),
                    peak_ends   |-> st.peak_ends]
         ELSE st
    ELSE IF st.in_peak
         THEN [in_peak     |-> FALSE,
               peak_starts |-> st.peak_starts,
               peak_ends   |-> Append(st.peak_ends, pos)]
         ELSE st

\* _find_peaks, lines 656-670: one window (var, pos); st holds in_peak,
\* peak_starts and peak_ends
find_peaks_step(st, var, pos, var_cutoff, half_bw) ==
    IF RatGt(var, var_cutoff)
    THEN IF ~st.in_peak
         THEN IF touches_last_peak(st.peak_ends, pos, half_bw)
              THEN [in_peak     |-> TRUE,
                    peak_starts |-> st.peak_starts,
                    peak_ends   |-> Front(st.peak_ends)]
              ELSE [in_peak     |-> TRUE,
                    peak_starts |-> Append(st.peak_starts, pos - half_bw),
                    peak_ends   |-> st.peak_ends]
         ELSE st
    ELSE IF st.in_peak
         THEN [in_peak     |-> FALSE,
               peak_starts |-> st.peak_starts,
               peak_ends   |-> Append(st.peak_ends, pos + half_bw)]
         ELSE st

\* a different ending: a peak still open is left without an end
find_peaks_close_dropped(st, pos) == st

\* _find_peaks, lines 671-672: pos is the last window's position
find_peaks_close(st, pos) ==
    IF st.in_peak
    THEN [st EXCEPT !.peak_ends = Append(st.peak_ends, pos)]
    ELSE st

RECURSIVE find_peaks_loop(_, _, _, _, _, _)
find_peaks_loop(smoothed_vars, swindow_centers, var_cutoff, half_bw, i, st) ==
    IF i > Len(smoothed_vars) \/ i > Len(swindow_centers) THEN st
    ELSE find_peaks_loop(smoothed_vars, swindow_centers, var_cutoff, half_bw,
            i + 1,
            find_peaks_step(st, smoothed_vars[i], swindow_centers[i],
                            var_cutoff, half_bw))

NoPeaks == [in_peak |-> FALSE, peak_starts |-> <<>>, peak_ends |-> <<>>]

\* _find_peaks, lines 650-674
find_peaks(smoothed_vars, swindow_centers, var_cutoff, half_bw) ==
    LET st == find_peaks_loop(smoothed_vars, swindow_centers, var_cutoff,
                              half_bw, 1, NoPeaks)
    IN  IF swindow_centers = <<>> THEN st
        ELSE find_peaks_close(st, Last(swindow_centers))

\* the entries of xs that are not NaN
RECURSIVE DropNaN(_)
DropNaN(xs) ==
    IF xs = <<>> THEN <<>>
    ELSE (IF IsNaN(xs[1]) THEN <<>> ELSE <<xs[1]>>) \o DropNaN(Tail(xs))

RECURSIVE RatSum(_)
RatSum(xs) == IF xs = <<>> THEN RatInt(0) ELSE RatAdd(xs[1], RatSum(Tail(xs)))

\* np.nanvar(xs): the variance (ddof = 0) of the entries that are not NaN,
\* NaN when there is none
nanvar(xs) ==
    LET ys == DropNaN(xs)
        n == Len(ys)
        mean == RatDiv(RatSum(ys), RatInt(n))
        sq == [k \in 1..n |-> RatMul(RatSub(ys[k], mean), RatSub(ys[k], mean))]
    IN  IF n = 0 THEN NaN ELSE RatDiv(RatSum(sq), RatInt(n))

\* xs with x inserted before the first entry greater than x
RECURSIVE InsertSorted(_, _)
InsertSorted(xs, x) ==
    IF xs = <<>> THEN <<x>>
    ELSE IF RatGt(xs[1], x) THEN <<x>> \o xs
         ELSE <<xs[1]>> \o InsertSorted(Tail(xs), x)

RECURSIVE SortRat(_)
SortRat(xs) == IF xs = <<>> THEN <<>> ELSE InsertSorted(SortRat(Tail(xs)), xs[1])

\* np.nanquantile(xs, q), q a rational in [0, 1]: linear interpolation between
\* the order statistics of the entries that are not NaN, NaN when there is none
nanquantile(xs, q) ==
    LET ys == SortRat(DropNaN(xs))
        n == Len(ys)
        at == RatMul(q, RatInt(n - 1))
        lo == at[1] \div at[2]
        frac == RatSub(at, RatInt(lo))
        hi == IF lo + 1 < n THEN lo + 1 ELSE lo
    IN  IF n = 0 THEN NaN
        ELSE RatAdd(At(ys, lo), RatMul(frac, RatSub(At(ys, hi), At(ys, lo))))

\* np.arange(start, end, stepsize) for stepsize > 0
RECURSIVE arange(_, _, _)
arange(start, end, stepsize) ==
    IF start >= end THEN <<>>
    ELSE <<start>> \o arange(start + stepsize, end, stepsize)

\* the rows a window centred at pos hands to the statistics engine, lines 699-700
window_of(pos, half_bw) == <<pos - half_bw, pos + half_bw>>

\* _move_windows, lines 694-705: the variance of one window
window_variance(pos, half_bw, mat, smoothed_vals) ==
    LET w == window_of(pos, half_bw)
    IN  nanvar(calc_mean_shrunken_residuals(mat.data, mat.indices, mat.indptr,
                   w[1], w[2], smoothed_vals, mat.shape[2], mat.shape[1]).resid)

\* _move_windows, lines 691-706
move_windows(start, end, stepsize, half_bw, mat, smoothed_vals) ==
    LET windows == arange(start, end, stepsize)
    IN  [windows      |-> windows,
         smoothed_var |-> [i \in 1..Len(windows) |->
                             window_variance(windows[i], half_bw, mat,
                                             smoothed_vals)]]

-----------------------------------------------------------------------------
(* smooth: one Smoother object and its smooth_whole_chrom loop *)

\* the positions that may hold entries in the stores that are smoothed
SmoothPositions == {1, 10, 12, 20}

SmoothBandwidths == 2..MaxBandwidth

SmoothStart ==
    /\ sm_pc = "new"
    /\ sm_mat \in StoresOver(SmoothPositions, NCells, MaxEntries)
    /\ sm_bandwidth \in SmoothBandwidths
    /\ sm_hbw = 0
    /\ sm_kernel = <<>>
    /\ mfracs = <<>>
    /\ cpg_pos = <<>>
    /\ sm_k = 0
    /\ smoothed = <<>>

SmoothIdle ==
    /\ sm_pc = "idle"
    /\ sm_mat = <<>>
    /\ sm_bandwidth = 0
    /\ sm_hbw = 0
    /\ sm_kernel = <<>>
    /\ mfracs = <<>>
    /\ cpg_pos = <<>>
    /\ sm_k = 0
    /\ smoothed = <<>>

\* Smoother.__init__, lines 465-479 (weigh is False)
SmootherNew ==
    /\ sm_pc = "new"
    /\ sm_hbw' = sm_bandwidth \div 2
    /\ sm_kernel' = kernel_of(sm_bandwidth)
    /\ mfracs' = mfracs_of(sm_mat)
    /\ cpg_pos' = cpg_pos_of(mfracs_of(sm_mat))
    /\ sm_pc' = "smoothing"
    /\ UNCHANGED <<sm_mat, sm_bandwidth, sm_k, smoothed>>
    /\ UNCHANGED notOfSmooth

\* smooth_whole_chrom, lines 483-497: one position of cpg_pos
SmoothPosition ==
    /\ sm_pc = "smoothing"
    /\ sm_k < Len(cpg_pos)
    /\ LET i == cpg_pos[sm_k + 1]
       IN  smoothed' = (i :> smooth_at(mfracs, sm_kernel, sm_hbw, i)) @@ smoothed
    /\ sm_k' = sm_k + 1
    /\ UNCHANGED <<sm_pc, sm_mat, sm_bandwidth, sm_hbw, sm_kernel, mfracs, cpg_pos>>
    /\ UNCHANGED notOfSmooth

\* smooth_whole_chrom, line 498
SmoothReturn ==
    /\ sm_pc = "smoothing"
    /\ sm_k = Len(cpg_pos)
    /\ sm_pc' = "returned"
    /\ UNCHANGED <<sm_mat, sm_bandwidth, sm_hbw, sm_kernel, mfracs, cpg_pos, sm_k,
                   smoothed>>
    /\ UNCHANGED notOfSmooth

NextSmooth ==
    \/ SmootherNew
    \/ SmoothPosition
    \/ SmoothReturn

-----------------------------------------------------------------------------
(* calls of the region statistics engine on one store *)

\* the positions that may hold entries in the stores that are queried
RegionPositions == {10, 20}

\* the bandwidths the queried store's Smoothed Track was written with
TrackBandwidths == {2, 4}

\* the intervals [start, end] that are queried
RegionStarts == {0, 5, 10, 11, 20, 21, 22}

RegionEnds == {9, 10, 19, 20, 25}

NoCall == [fn |-> "", start |-> 0, end |-> 0]

NoOut == [n_meth |-> <<>>, n_total |-> <<>>, mfracs |-> <<>>, n_obs_cpg |-> 0,
          resid |-> <<>>, raised |-> FALSE]

RegionStart ==
    /\ reg_mat \in StoresOver(RegionPositions, NCells, MaxEntries)
    /\ \E b \in TrackBandwidths : reg_smoothed = smooth_whole_chrom(reg_mat, b)
    /\ reg_call = NoCall
    /\ reg_out = NoOut

RegionIdle ==
    /\ reg_mat = <<>>
    /\ reg_smoothed = <<>>
    /\ reg_call = NoCall
    /\ reg_out = NoOut

\* a call of _calc_region_stats as matrix makes it, lines 600-602.  Where the
\* function leaves n_obs_cpg unassigned the value it returns is whatever the
\* compiled code holds there.
CallRegionStats ==
    /\ reg_mat # <<>>
    /\ reg_call = NoCall
    /\ \E start \in RegionStarts, end \in RegionEnds :
         LET r == calc_region_stats(reg_mat.data, reg_mat.indices,
                      reg_mat.indptr, start, end, reg_mat.shape[2],
                      reg_mat.shape[1])
         IN  /\ start <= end
             /\ reg_call' = [fn |-> "stats", start |-> start, end |-> end]
             /\ \E u \in (IF r.assigned THEN {r.n_obs_cpg}
                           ELSE 0..MaxUnassigned) :
                  reg_out' = [n_meth |-> r.n_meth, n_total |-> r.n_total,
                              mfracs |-> r.mfracs, n_obs_cpg |-> u,
                              resid |-> <<>>, raised |-> FALSE]
    /\ UNCHANGED <<reg_mat, reg_smoothed>>
    /\ UNCHANGED notOfRegion

\* a call of _calc_mean_shrunken_residuals, lines 609-618 and 883-892
CallShrunkenResiduals ==
    /\ reg_mat # <<>>
    /\ reg_call = NoCall
    /\ \E start \in RegionStarts, end \in RegionEnds :
         LET r == calc_mean_shrunken_residuals(reg_mat.data, reg_mat.indices,
                      reg_mat.indptr, start, end, reg_smoothed,
                      reg_mat.shape[2], reg_mat.shape[1])
         IN  /\ start <= end
             /\ reg_call' = [fn |-> "resid", start |-> start, end |-> end]
             /\ reg_out' = [n_meth |-> <<>>, n_total |-> <<>>, mfracs |-> <<>>,
                            n_obs_cpg |-> 0, resid |-> r.resid,
                            raised |-> r.raised]
    /\ UNCHANGED <<reg_mat, reg_smoothed>>
    /\ UNCHANGED notOfRegion

NextRegion ==
    \/ CallRegionStats
    \/ CallShrunkenResiduals

-----------------------------------------------------------------------------
(* _find_peaks, one window per step *)

\* the variances a window may have: 0.05, 0.1, 0.55, 0.6 and NaN
VarLevels == {<<1, 20>>, <<1, 10>>, <<11, 20>>, <<3, 5>>, NaN}

\* the thresholds peaks are called with: 0.5, and NaN (what np.nanquantile
\* gives when no window of the first chromosome has a variance)
Cutoffs == {<<1, 2>>, NaN}

RECURSIVE SeqsUpTo(_, _)
SeqsUpTo(S, n) ==
    IF n = 0 THEN {<<>>}
    ELSE LET shorter == SeqsUpTo(S, n - 1)
         IN  shorter \cup {Append(s, x) : s \in {t \in shorter : Len(t) = n - 1},
                                          x \in S}

\* the window positions of scan, lines 857-858 and 691: the first window is
\* fp_half_bw + 1 past the first covered position (here position 1)
CentersOf(n, stepsize, hb) == [i \in 1..n |-> 1 + hb + 1 + (i - 1) * stepsize]

PeaksStart ==
    /\ fp_pc = "loop"
    /\ fp_vars \in SeqsUpTo(VarLevels, MaxWindows)
    /\ fp_half_bw \in 0..MaxHalfBw
    /\ \E stepsize \in 1..MaxStep :
         fp_centers = CentersOf(Len(fp_vars), stepsize, fp_half_bw)
    /\ fp_cutoff \in Cutoffs
    /\ fp_i = 0
    /\ in_peak = FALSE
    /\ peak_starts = <<>>
    /\ peak_ends = <<>>

PeaksIdle ==
    /\ fp_pc = "idle"
    /\ fp_vars = <<>>
    /\ fp_half_bw = 0
    /\ fp_centers = <<>>
    /\ fp_cutoff = NaN
    /\ fp_i = 0
    /\ in_peak = FALSE
    /\ peak_starts = <<>>
    /\ peak_ends = <<>>

\* _find_peaks, lines 655-670: one iteration of the loop
FindPeaksStep ==
    /\ fp_pc = "loop"
    /\ fp_i < Len(fp_vars)
    /\ LET st == find_peaks_step(
                    [in_peak |-> in_peak, peak_starts |-> peak_starts,
                     peak_ends |-> peak_ends],
                    fp_vars[fp_i + 1], fp_centers[fp_i + 1],
                    fp_cutoff, fp_half_bw)
       IN  /\ in_peak' = st.in_peak
           /\ peak_starts' = st.peak_starts
           /\ peak_ends' = st.peak_ends
    /\ fp_i' = fp_i + 1
    /\ UNCHANGED <<fp_pc, fp_vars, fp_half_bw, fp_centers, fp_cutoff>>
    /\ UNCHANGED notOfPeaks

\* _find_peaks, lines 671-674: the open peak is closed, the assertion is made
FindPeaksReturn ==
    /\ fp_pc = "loop"
    /\ fp_i = Len(fp_vars)
    /\ LET st == IF fp_i = 0
                 THEN [in_peak |-> in_peak, peak_starts |-> peak_starts,
                       peak_ends |-> peak_ends]
                 ELSE find_peaks_close(
                        [in_peak |-> in_peak, peak_starts |-> peak_starts,
                         peak_ends |-> peak_ends],
                        fp_centers[fp_i])
       IN  /\ peak_ends' = st.peak_ends
           /\ fp_pc' = IF Len(st.peak_starts) = Len(st.peak_ends)
                       THEN "returned" ELSE "assertion_failed"
    /\ UNCHANGED <<fp_vars, fp_half_bw, fp_centers, fp_cutoff, fp_i,
                   in_peak, peak_starts>>
    /\ UNCHANGED notOfPeaks

NextPeaks ==
    \/ FindPeaksStep
    \/ FindPeaksReturn

-----------------------------------------------------------------------------
(* scan *)

\* what a row of a scanned store may hold: nothing, one methylated call, or a
\* methylated call in cell 0 and an unmethylated call in cell 1
RowKinds == {"none", "single", "discordant"}

RowEntriesOfKind(p, kind) ==
    CASE kind = "none"       -> {}
      [] kind = "single"     -> {<<p, 0, 1>>}
      [] kind = "discordant" -> {<<p, 0, 1>>, <<p, 1, -1>>}

\* the entries of a scanned store: a call at position 1, rows 3 and 6 of the
\* kinds given, and a call at position 8 when the store is long
ScanTriples(kind3, kind6, long) ==
    {<<1, 0, 1>>} \cup RowEntriesOfKind(3, kind3) \cup RowEntriesOfKind(6, kind6)
        \cup (IF long THEN {<<8, 0, 1>>} ELSE {})

RECURSIVE SeqOfSet(_)
SeqOfSet(S) ==
    IF S = {} THEN <<>>
    ELSE LET x == CHOOSE y \in S : TRUE IN <<x>> \o SeqOfSet(S \ {x})

ScanStores ==
    {LET t == ScanTriples(k3, k6, long)
     IN  coo_to_csr(SeqOfSet(t), MaxOf({x[1] : x \in t}) + 1, 2) :
        k3 \in RowKinds, k6 \in RowKinds, long \in BOOLEAN}

\* a dataset directory: per chromosome the store, its file size, and the
\* Smoothed Track when smooth was run for it
DataDirs ==
    UNION {[cs -> [mat : ScanStores, size : 1..MaxFileSize,
                   has_track : BOOLEAN]] : cs \in {{"1"}, {"1", "2"}}}

None == <<>>

NoMat == [data |-> <<>>, indices |-> <<>>, indptr |-> <<0>>, shape |-> <<0, 0>>]

ScanStart ==
    /\ scan_pc = "start"
    /\ data_dir \in DataDirs
    /\ scan_bandwidth = 2
    /\ scan_stepsize = 1
    /\ scan_var_threshold = <<1, 2>>
    /\ chrom_paths = <<>>
    /\ scan_i = 0
    /\ var_threshold_value = None
    /\ scan_mat = NoMat
    /\ smoothed_cpg_vals = <<>>
    /\ genomic_positions = <<>>
    /\ window_variances = <<>>
    /\ output = <<>>

ScanIdle ==
    /\ scan_pc = "idle"
    /\ data_dir = <<>>
    /\ scan_bandwidth = 0
    /\ scan_stepsize = 0
    /\ scan_var_threshold = NaN
    /\ chrom_paths = <<>>
    /\ scan_i = 0
    /\ var_threshold_value = None
    /\ scan_mat = NoMat
    /\ smoothed_cpg_vals = <<>>
    /\ genomic_positions = <<>>
    /\ window_variances = <<>>
    /\ output = <<>>

\* sorted(..., key=getsize, reverse=True): no path before a larger one
sorted_by_size(paths, dir) ==
    \A a, b \in 1..Len(paths) : a < b => dir[paths[a]].size >= dir[paths[b]].size

\* scan, lines 829-840: the stores are listed, largest file first (files of
\* equal size in the order glob lists them, which is any order)
ScanSort ==
    /\ scan_pc = "start"
    /\ \E paths \in [1..Cardinality(DOMAIN data_dir) -> DOMAIN data_dir] :
         /\ Range(paths) = DOMAIN data_dir
         /\ sorted_by_size(paths, data_dir)
         /\ chrom_paths' = paths
    /\ scan_pc' = "load"
    /\ UNCHANGED <<data_dir, scan_bandwidth, scan_stepsize, scan_var_threshold, scan_i,
                   var_threshold_value, scan_mat, smoothed_cpg_vals,
                   genomic_positions, window_variances, output>>
    /\ UNCHANGED notOfScan

\* scan, lines 841-848: the next store and its Smoothed Track are loaded;
\* _load_smoothed_chrom raises when the track was never written
ScanLoad ==
    /\ scan_pc = "load"
    /\ scan_i < Len(chrom_paths)
    /\ LET d == data_dir[chrom_paths[scan_i + 1]]
       IN  IF d.has_track
           THEN /\ scan_mat' = d.mat
                /\ smoothed_cpg_vals' = smooth_whole_chrom(d.mat, TrackBandwidth)
                /\ scan_pc' = "windows"
           ELSE /\ scan_mat' = d.mat
                /\ scan_pc' = "error"
                /\ UNCHANGED smoothed_cpg_vals
    /\ UNCHANGED <<data_dir, scan_bandwidth, scan_stepsize, scan_var_threshold,
                   chrom_paths, scan_i, var_threshold_value,
                   genomic_positions, window_variances, output>>
    /\ UNCHANGED notOfScan

\* np.nonzero(mat.getnnz(axis=1))[0], line 849
covered_rows(mat) ==
    LET covered == [k \in 1..mat.shape[1] |-> row_nnz(mat, k - 1) # 0]
    IN  NonzeroFrom(covered, 0, mat.shape[1])

\* scan, lines 849-870: the windows of the chromosome and their variances
ScanMoveWindows ==
    /\ scan_pc = "windows"
    /\ LET cpg_pos_chrom == covered_rows(scan_mat)
           hb == scan_bandwidth \div 2
           start == cpg_pos_chrom[1] + hb + 1
           end == Last(cpg_pos_chrom) - hb - 1
           w == move_windows(start, end, scan_stepsize, hb, scan_mat,
                             smoothed_cpg_vals)
       IN  /\ genomic_positions' = w.windows
           /\ window_variances' = w.smoothed_var
    /\ scan_pc' = "threshold"
    /\ UNCHANGED <<data_dir, scan_bandwidth, scan_stepsize, scan_var_threshold,
                   chrom_paths, scan_i, var_threshold_value, scan_mat,
                   smoothed_cpg_vals, output>>
    /\ UNCHANGED notOfScan

\* a different test: the threshold is found anew on every chromosome
threshold_unset_always(value) == TRUE

\* the test of line 872
threshold_unset(value) == value = None

\* scan, lines 872-875: the threshold is found on the first chromosome
ScanThreshold ==
    /\ scan_pc = "threshold"
    /\ var_threshold_value' =
          IF threshold_unset(var_threshold_value)
          THEN nanquantile(window_variances, RatSub(RatInt(1), scan_var_threshold))
          ELSE var_threshold_value
    /\ scan_pc' = "peaks"
    /\ UNCHANGED <<data_dir, scan_bandwidth, scan_stepsize, scan_var_threshold,
                   chrom_paths, scan_i, scan_mat, smoothed_cpg_vals,
                   genomic_positions, window_variances, output>>
    /\ UNCHANGED notOfScan

\* scan, lines 877-879: the call of _find_peaks, its arguments and result
ScanFindPeaks ==
    /\ scan_pc = "peaks"
    /\ fp_vars' = window_variances
    /\ fp_centers' = genomic_positions
    /\ fp_cutoff' = var_threshold_value
    /\ fp_half_bw' = scan_bandwidth \div 2
    /\ LET st == find_peaks(window_variances, genomic_positions,
                            var_threshold_value, scan_bandwidth \div 2)
       IN  /\ in_peak' = st.in_peak
           /\ peak_starts' = st.peak_starts
           /\ peak_ends' = st.peak_ends
           /\ fp_pc' = IF Len(st.peak_starts) = Len(st.peak_ends)
                       THEN "returned" ELSE "assertion_failed"
           /\ scan_pc' = IF Len(st.peak_starts) = Len(st.peak_ends)
                         THEN "write" ELSE "error"
    /\ fp_i' = Len(window_variances)
    /\ UNCHANGED scanVars_but_pc
    /\ UNCHANGED <<prepVars, smoothVars, regionVars, matrixVars, orderVars,
                   parVars>>

\* scan, lines 881-895: one output record per peak, its variance taken over
\* the rows from the peak's start to its end
bed_entries(chrom, starts, ends, mat, track) ==
    [k \in 1..Len(starts) |->
        <<chrom, starts[k], ends[k],
          nanvar(calc_mean_shrunken_residuals(mat.data, mat.indices,
                     mat.indptr, starts[k], ends[k], track, mat.shape[2],
                     mat.shape[1]).resid)>>]

ScanWritePeaks ==
    /\ scan_pc = "write"
    /\ output' = output \o bed_entries(chrom_paths[scan_i + 1], peak_starts,
                                       peak_ends, scan_mat, smoothed_cpg_vals)
    /\ scan_i' = scan_i + 1
    /\ scan_pc' = "load"
    /\ UNCHANGED <<data_dir, scan_bandwidth, scan_stepsize, scan_var_threshold,
                   chrom_paths, var_threshold_value, scan_mat,
                   smoothed_cpg_vals, genomic_positions, window_variances>>
    /\ UNCHANGED notOfScan

\* scan, line 906
ScanReturn ==
    /\ scan_pc = "load"
    /\ scan_i = Len(chrom_paths)
    /\ scan_pc' = "done"
    /\ UNCHANGED <<data_dir, scan_bandwidth, scan_stepsize, scan_var_threshold,
                   chrom_paths, scan_i, var_threshold_value, scan_mat,
                   smoothed_cpg_vals, genomic_positions, window_variances,
                   output>>
    /\ UNCHANGED notOfScan

NextScan ==
    \/ ScanSort
    \/ ScanLoad
    \/ ScanMoveWindows
    \/ ScanThreshold
    \/ ScanFindPeaks
    \/ ScanWritePeaks
    \/ ScanReturn

-----------------------------------------------------------------------------
(* matrix: the region engine over the entries of a bed file *)

\* most entries of a bed file
MaxRegions == 3

\* _parse_cell_names: the column header names the two cells of the dataset
MatrixCellNames == <<"a", "b">>

\* the first line that matrix writes, lines 554-565
output_header ==
    <<"chromosome", "start", "end", "n_sites", "n_cells", "cell_name",
      "n_meth", "n_obs", "meth_frac", "shrunken_residual">>

\* the stores a chromosome of the dataset may hold
MatrixStores ==
    {coo_to_csr(<<<<2, 0, 1>>, <<2, 1, -1>>, <<4, 0, 1>>>>, 5, 2),
     coo_to_csr(<<<<2, 0, -1>>, <<5, 1, 1>>>>, 6, 2)}

\* a dataset directory: per chromosome name either nothing, or the store
\* and, when smooth was run for it, the Smoothed Track
MatrixDirs ==
    [Chroms -> {[has_store |-> FALSE, mat |-> NoMat, has_track |-> FALSE]}
               \cup [has_store : {TRUE}, mat : MatrixStores, has_track : BOOLEAN]]

\* the intervals a bed entry may name
MatrixIntervals == {<<0, 1>>, <<1, 3>>, <<3, 5>>}

\* the entries _iter_bed yields: chrom, start, end
BedEntries ==
    {[chrom |-> c, start |-> iv[1], end |-> iv[2]] :
        c \in Chroms, iv \in MatrixIntervals}

\* prev_chrom = None (no chromosome has an empty name)
NoChrom == ""

\* a different test: the track is taken to be there
track_found_always(d) == TRUE

\* os.path.isfile(smoothed_path), line 531
track_found(d) == d.has_track

\* sp_sparse.load_npz succeeds, lines 122-124
store_found(d) == d.has_store

\* matrix, lines 598-635: the statistics of one region and its output rows,
\* one per cell that observed the region
matrix_region(st, entry) ==
    LET mat == st.mat
        n_cells == mat.shape[2]
        chrom_len == mat.shape[1]
        stats == calc_region_stats(mat.data, mat.indices, mat.indptr,
                     entry.start, entry.end, n_cells, chrom_len)
        observed == [c \in 1..n_cells |-> stats.n_total[c] > 0]
        nz_cells == NonzeroFrom(observed, 0, n_cells)
        resid_shrunk == calc_mean_shrunken_residuals(mat.data, mat.indices,
                            mat.indptr, entry.start, entry.end,
                            st.smoothed_vals, n_cells, chrom_len)
        rows == [k \in 1..Len(nz_cells) |->
                    LET c == nz_cells[k]
                    IN  <<entry.chrom, entry.start, entry.end, stats.n_obs_cpg,
                          Len(nz_cells), At(MatrixCellNames, c),
                          At(stats.n_meth, c), At(stats.n_total, c),
                          At(stats.mfracs, c), At(resid_shrunk.resid, c)>>]
    IN  IF nz_cells = <<>>
        THEN [st EXCEPT !.n_regions = @ + 1, !.n_empty_regions = @ + 1]
        ELSE IF resid_shrunk.raised
        THEN [st EXCEPT !.n_regions = @ + 1, !.pc = "key_error"]
        ELSE [st EXCEPT !.n_regions = @ + 1, !.output = @ \o rows]

\* matrix, lines 574-635: the body of the loop for one bed entry
matrix_entry(st, entry, dir) ==
    LET chrom == entry.chrom
        d == dir[chrom]
        st1 == IF st.prev_chrom = NoChrom
               THEN [st EXCEPT !.output = Append(@, output_header)]
               ELSE st
    IN  IF chrom \in st.unknown_chroms
        THEN st1
        ELSE IF chrom = st.prev_chrom
        THEN matrix_region(st1, entry)
        ELSE IF chrom \in st.observed_chroms
        THEN [st1 EXCEPT !.pc = "not_sorted"]
        ELSE IF ~store_found(d)
        THEN [st1 EXCEPT !.warnings = Append(@, chrom),
                         !.unknown_chroms = @ \cup {chrom},
                         !.observed_chroms = @ \cup {chrom},
                         !.prev_chrom = chrom]
        ELSE IF ~track_found(d)
        THEN [st1 EXCEPT !.mat = d.mat, !.pc = "no_track"]
        ELSE matrix_region(
                 [st1 EXCEPT !.mat = d.mat,
                             !.smoothed_vals = smooth_whole_chrom(d.mat, TrackBandwidth),
                             !.observed_chroms = @ \cup {chrom},
                             !.prev_chrom = chrom],
                 entry)

\* matrix, lines 566-571
MatrixStart ==
    /\ mx_pc = "loop"
    /\ mx_dir \in MatrixDirs
    /\ regions \in UNION {[1..n -> BedEntries] : n \in 0..MaxRegions}
    /\ mx_i = 0
    /\ observed_chroms = {}
    /\ unknown_chroms = {}
    /\ prev_chrom = NoChrom
    /\ n_regions = 0
    /\ n_empty_regions = 0
    /\ mx_mat = NoMat
    /\ mx_smoothed_vals = <<>>
    /\ mx_output = <<>>
    /\ mx_warnings = <<>>

MatrixIdle ==
    /\ mx_pc = "idle"
    /\ mx_dir = <<>>
    /\ regions = <<>>
    /\ mx_i = 0
    /\ observed_chroms = {}
    /\ unknown_chroms = {}
    /\ prev_chrom = NoChrom
    /\ n_regions = 0
    /\ n_empty_regions = 0
    /\ mx_mat = NoMat
    /\ mx_smoothed_vals = <<>>
    /\ mx_output = <<>>
    /\ mx_warnings = <<>>

\* the local names of matrix, as one record
matrix_locals ==
    [pc |-> mx_pc, observed_chroms |-> observed_chroms,
     unknown_chroms |-> unknown_chroms, prev_chrom |-> prev_chrom,
     n_regions |-> n_regions, n_empty_regions |-> n_empty_regions,
     mat |-> mx_mat, smoothed_vals |-> mx_smoothed_vals,
     output |-> mx_output, warnings |-> mx_warnings]

\* matrix, lines 573-635: the next bed entry is read and handled
MatrixEntry ==
    /\ mx_pc = "loop"
    /\ mx_i < Len(regions)
    /\ LET st == matrix_entry(matrix_locals, regions[mx_i + 1], mx_dir)
       IN  /\ mx_pc' = st.pc
           /\ observed_chroms' = st.observed_chroms
           /\ unknown_chroms' = st.unknown_chroms
           /\ prev_chrom' = st.prev_chrom
           /\ n_regions' = st.n_regions
           /\ n_empty_regions' = st.n_empty_regions
           /\ mx_mat' = st.mat
           /\ mx_smoothed_vals' = st.smoothed_vals
           /\ mx_output' = st.output
           /\ mx_warnings' = st.warnings
           /\ mx_i' = IF st.pc = "loop" THEN mx_i + 1 ELSE mx_i
    /\ UNCHANGED <<mx_dir, regions>>
    /\ UNCHANGED notOfMatrix

\* matrix, lines 637-646: after the last entry
MatrixReturn ==
    /\ mx_pc = "loop"
    /\ mx_i = Len(regions)
    /\ mx_pc' = IF n_regions = 0 THEN "no_regions" ELSE "done"
    /\ UNCHANGED <<mx_dir, regions, mx_i, observed_chroms, unknown_chroms,
                   prev_chrom, n_regions, n_empty_regions, mx_mat,
                   mx_smoothed_vals, mx_output, mx_warnings>>
    /\ UNCHANGED notOfMatrix

NextMatrix ==
    \/ MatrixEntry
    \/ MatrixReturn

-----------------------------------------------------------------------------
(* The region statistics engine queried twice on the same arrays *)

\* the intervals queried
OrderIntervals == {<<0, 9>>, <<5, 15>>, <<10, 20>>, <<15, 25>>}

\* a different engine: the index pointers of the region are rebased in
\* place, indptr_chrom[start : end + 1] -= indptr_chrom[start]
backing_arrays_rebased(mat, start, end) ==
    LET e == clip_end(end, mat.shape[1])
        lo == At(mat.indptr, start)
    IN  IF start > mat.shape[1] THEN mat
        ELSE [mat EXCEPT !.indptr =
                 [k \in 1..Len(mat.indptr) |->
                     IF start <= k - 1 /\ k - 1 <= e
                     THEN mat.indptr[k] - lo ELSE mat.indptr[k]]]

\* what a call leaves in data_chrom, indices_chrom and indptr_chrom: both
\* functions read slices of them, lines 728-736 and 809-815; 'end += 1'
\* rebinds a local name and the subtraction of line 736 / 815 makes a new
\* array; every write goes to an array made inside the call
backing_arrays_after(mat, start, end) == mat

\* what a call leaves in smoothed_vals: it is read only, line 754
smoothed_vals_after(smoothed_vals, start, end) == smoothed_vals

\* the per-cell results of the two functions for one interval
region_results(mat, smoothed_vals, start, end) ==
    LET stats == calc_region_stats(mat.data, mat.indices, mat.indptr,
                     start, end, mat.shape[2], mat.shape[1])
        resid == calc_mean_shrunken_residuals(mat.data, mat.indices,
                     mat.indptr, start, end, smoothed_vals, mat.shape[2],
                     mat.shape[1])
    IN  [n_meth |-> stats.n_meth, n_total |-> stats.n_total,
         mfracs |-> stats.mfracs, resid |-> resid.resid,
         raised |-> resid.raised]

OrderStart ==
    /\ ord_mat \in StoresOver(RegionPositions, NCells, MaxEntries)
    /\ \E b \in TrackBandwidths : ord_smoothed = smooth_whole_chrom(ord_mat, b)
    /\ ord_mat0 = ord_mat
    /\ ord_smoothed0 = ord_smoothed
    /\ ord_queries \in
          {<<[start |-> a[1], end |-> a[2]], [start |-> b[1], end |-> b[2]]>> :
              a \in OrderIntervals, b \in OrderIntervals}
    /\ ord_k = 0
    /\ ord_results = <<>>

OrderIdle ==
    /\ ord_mat = <<>>
    /\ ord_smoothed = <<>>
    /\ ord_mat0 = <<>>
    /\ ord_smoothed0 = <<>>
    /\ ord_queries = <<>>
    /\ ord_k = 0
    /\ ord_results = <<>>

\* the next interval is queried: _calc_region_stats and
\* _calc_mean_shrunken_residuals are called on the arrays as the calls
\* before left them
QueryInterval ==
    /\ ord_k < Len(ord_queries)
    /\ LET q == ord_queries[ord_k + 1]
       IN  /\ ord_results' = Append(ord_results,
                  region_results(ord_mat, ord_smoothed, q.start, q.end))
           /\ ord_mat' = backing_arrays_after(ord_mat, q.start, q.end)
           /\ ord_smoothed' = smoothed_vals_after(ord_smoothed, q.start, q.end)
    /\ ord_k' = ord_k + 1
    /\ UNCHANGED <<ord_mat0, ord_smoothed0, ord_queries>>
    /\ UNCHANGED notOfOrder

NextOrder == QueryInterval

-----------------------------------------------------------------------------
(* _move_windows with its loop run by parallel workers (prange) *)

\* most worker threads
MaxWorkers == 2

\* what a slot of np.empty may hold before it is written, line 692
Unwritten == {NaN, <<7, 1>>}

\* a worker that holds no evaluated window
NoWork == [i |-> 0, value |-> NaN]

\* scan, lines 857-858: the bounds of the windows of a store
windows_start(mat, half_bw) == covered_rows(mat)[1] + half_bw + 1

windows_end(mat, half_bw) == Last(covered_rows(mat)) - half_bw - 1

\* a different loop body: every window writes the first slot
slot_of_shared(i) == 1

\* smoothed_var[i] = ..., line 705: the slot the evaluation of window i writes
slot_of(i) == i

ParStart ==
    /\ par_pc = "run"
    /\ par_mat \in ScanStores
    /\ par_smoothed = smooth_whole_chrom(par_mat, TrackBandwidth)
    /\ par_mat0 = par_mat
    /\ par_smoothed0 = par_smoothed
    /\ par_half_bw = 1
    /\ par_windows = arange(windows_start(par_mat, 1), windows_end(par_mat, 1), 1)
    /\ par_owner \in [1..Len(par_windows) -> 1..MaxWorkers]
    /\ \E garbage \in Unwritten :
         par_smoothed_var = [i \in 1..Len(par_windows) |-> garbage]
    /\ par_taken = {}
    /\ par_local = [w \in 1..MaxWorkers |-> NoWork]
    /\ par_writes = [i \in 1..Len(par_windows) |-> <<>>]

ParIdle ==
    /\ par_pc = "idle"
    /\ par_mat = <<>>
    /\ par_smoothed = <<>>
    /\ par_mat0 = <<>>
    /\ par_smoothed0 = <<>>
    /\ par_half_bw = 0
    /\ par_windows = <<>>
    /\ par_owner = <<>>
    /\ par_smoothed_var = <<>>
    /\ par_taken = {}
    /\ par_local = <<>>
    /\ par_writes = <<>>

\* the iterations of worker w not yet started
remaining_of(w) == {i \in 1..Len(par_windows) : par_owner[i] = w} \ par_taken

\* _move_windows, lines 694-705 up to the store: worker w takes the next
\* iteration of its share and evaluates the window on the shared arrays
WorkerEvaluate(w) ==
    /\ par_pc = "run"
    /\ par_local[w] = NoWork
    /\ remaining_of(w) # {}
    /\ LET i == CHOOSE x \in remaining_of(w) : \A y \in remaining_of(w) : x <= y
           pos == par_windows[i]
           win == window_of(pos, par_half_bw)
       IN  /\ par_local' = [par_local EXCEPT ![w] =
                  [i |-> i,
                   value |-> window_variance(pos, par_half_bw, par_mat,
                                             par_smoothed)]]
           /\ par_taken' = par_taken \cup {i}
           /\ par_mat' = backing_arrays_after(par_mat, win[1], win[2])
           /\ par_smoothed' = smoothed_vals_after(par_smoothed, win[1], win[2])
    /\ UNCHANGED <<par_pc, par_mat0, par_smoothed0, par_half_bw, par_windows,
                   par_owner, par_smoothed_var, par_writes>>
    /\ UNCHANGED notOfPar

\* _move_windows, line 705: worker w stores the variance it computed
WorkerStore(w) ==
    /\ par_pc = "run"
    /\ par_local[w] # NoWork
    /\ LET slot == slot_of(par_local[w].i)
       IN  /\ par_smoothed_var' = [par_smoothed_var EXCEPT ![slot] = par_local[w].value]
           /\ par_writes' = [par_writes EXCEPT ![slot] = Append(@, par_local[w].i)]
    /\ par_local' = [par_local EXCEPT ![w] = NoWork]
    /\ UNCHANGED <<par_pc, par_mat, par_smoothed, par_mat0, par_smoothed0,
                   par_half_bw, par_windows, par_owner, par_taken>>
    /\ UNCHANGED notOfPar

\* _move_windows, line 706: every iteration is done, the arrays are returned
ParReturn ==
    /\ par_pc = "run"
    /\ par_taken = 1..Len(par_windows)
    /\ \A w \in 1..MaxWorkers : par_local[w] = NoWork
    /\ par_pc' = "returned"
    /\ UNCHANGED <<par_mat, par_smoothed, par_mat0, par_smoothed0, par_half_bw,
                   par_windows, par_owner, par_smoothed_var, par_taken,
                   par_local, par_writes>>
    /\ UNCHANGED notOfPar

NextPar ==
    \/ \E w \in 1..MaxWorkers : WorkerEvaluate(w)
    \/ \E w \in 1..MaxWorkers : WorkerStore(w)
    \/ ParReturn

-----------------------------------------------------------------------------
(* The specifications *)

InitPrepare == PrepareStart /\ SmoothIdle /\ RegionIdle /\ PeaksIdle /\ ScanIdle
                /\ MatrixIdle /\ OrderIdle /\ ParIdle

SpecPrepare == InitPrepare /\ [][NextPrepare]_vars

InitSmooth == PrepareIdle /\ SmoothStart /\ RegionIdle /\ PeaksIdle /\ ScanIdle
                /\ MatrixIdle /\ OrderIdle /\ ParIdle

SpecSmooth == InitSmooth /\ [][NextSmooth]_vars

InitRegion == PrepareIdle /\ SmoothIdle /\ RegionStart /\ PeaksIdle /\ ScanIdle
                /\ MatrixIdle /\ OrderIdle /\ ParIdle

SpecRegion == InitRegion /\ [][NextRegion]_vars

InitPeaks == PrepareIdle /\ SmoothIdle /\ RegionIdle /\ PeaksStart /\ ScanIdle
                /\ MatrixIdle /\ OrderIdle /\ ParIdle

SpecPeaks == InitPeaks /\ [][NextPeaks]_vars

InitScan == PrepareIdle /\ SmoothIdle /\ RegionIdle /\ PeaksIdle /\ ScanStart
                /\ MatrixIdle /\ OrderIdle /\ ParIdle

SpecScan == InitScan /\ [][NextScan]_vars

InitMatrix == PrepareIdle /\ SmoothIdle /\ RegionIdle /\ PeaksIdle /\ ScanIdle
                /\ MatrixStart /\ OrderIdle /\ ParIdle

SpecMatrix == InitMatrix /\ [][NextMatrix]_vars

InitOrder == PrepareIdle /\ SmoothIdle /\ RegionIdle /\ PeaksIdle /\ ScanIdle
                /\ MatrixIdle /\ OrderStart /\ ParIdle

SpecOrder == InitOrder /\ [][NextOrder]_vars

InitPar == PrepareIdle /\ SmoothIdle /\ RegionIdle /\ PeaksIdle /\ ScanIdle
                /\ MatrixIdle /\ OrderIdle /\ ParStart

SpecPar == InitPar /\ [][NextPar]_vars

\* scan or matrix is run on a dataset
InitScanOrMatrix == InitScan \/ InitMatrix

NextScanOrMatrix == NextScan \/ NextMatrix

SpecScanOrMatrix == InitScanOrMatrix /\ [][NextScanOrMatrix]_vars

-----------------------------------------------------------------------------
(* Properties of prepare *)

\* a record as C1 describes it: both resolved counts nonzero, the unmethylated
\* count being total coverage - methylated in the coverage layout
BothCountsNonzero(ln, cov) ==
    /\ ln.m # 0
    /\ (IF cov THEN ln.u - ln.m ELSE ln.u) # 0

\* the coordinates <<position, cell>> that hold an entry of a store
StoredCoords(mat) ==
    {<<p[1], mat.indices[p[2]]>> :
        p \in {q \in (0..(mat.shape[1] - 1)) \X (1..Len(mat.indices)) :
                  /\ At(mat.indptr, q[1]) < q[2]
                  /\ q[2] <= At(mat.indptr, q[1] + 1)}}

\* the coordinates <<position, cell>> named in a staging stream
StagedCoords(coo) == {<<coo[k][1], coo[k][2]>> : k \in 1..Len(coo)}

\* C1: a record whose resolved methylated and unmethylated counts are both
\* nonzero adds nothing to the staging streams (no stream is opened, no line
\* is written, no chromosome size is raised) and nothing to any store; and a
\* store, when it is assembled, holds entries at the staged coordinates only,
\* so that what was never staged is in no store.
C1_AmbiguousRecordContributesNothing ==
    /\ [][(line_n' = line_n + 1 /\ BothCountsNonzero(line', coverage))
            => /\ coo_files' = coo_files
               /\ coo_disk' = coo_disk
               /\ chrom_sizes' = chrom_sizes
               /\ npz' = npz]_vars
    /\ [][\A chrom \in (DOMAIN npz') \ (DOMAIN npz) :
            StoredCoords(npz'[chrom]) = StagedCoords(coo_disk[chrom])]_vars

\* C1 happens: prepare finished with stores written, and the last record read
\* had both counts nonzero
C1_Witness ==
    /\ prep_pc = "done"
    /\ npz # <<>>
    /\ BothCountsNonzero(line, coverage)

\* the store invariant: row-offset pointers non-decreasing, column indices
\* valid cell indices, values exactly -1 or +1
StoreInvariant(mat, n_cells) ==
    /\ \A k \in 1..(Len(mat.indptr) - 1) : mat.indptr[k] <= mat.indptr[k + 1]
    /\ \A k \in 1..Len(mat.indices) :
         mat.indices[k] >= 0 /\ mat.indices[k] < n_cells
    /\ \A k \in 1..Len(mat.data) : mat.data[k] \in {-1, 1}

\* C2: after prepare finishes, every assembled store satisfies the store
\* invariant.  Violated: two records of one file at the same chromosome and
\* position are summed into one entry, which then holds 2, -2 or 0.
C2_StoresSatisfyInvariant ==
    prep_pc = "done" =>
        \A chrom \in DOMAIN npz : StoreInvariant(npz[chrom], Len(cell_names))

-----------------------------------------------------------------------------
(* Properties of the region statistics engine *)

\* C3: on a store satisfying the store invariant, for every interval and
\* every cell c, _calc_region_stats returns n_meth[c] <= n_total[c]; the
\* fraction of c is the quotient n_meth[c] / n_total[c] when n_total[c] > 0
\* and NaN when n_total[c] = 0.
C3_FractionIsMethOverTotal ==
    (reg_call.fn = "stats" /\ StoreInvariant(reg_mat, reg_mat.shape[2])) =>
        \A c \in 1..reg_mat.shape[2] :
            /\ reg_out.n_meth[c] <= reg_out.n_total[c]
            /\ reg_out.n_total[c] > 0 =>
                 /\ ~IsNaN(reg_out.mfracs[c])
                 /\ reg_out.mfracs[c][1] * reg_out.n_total[c]
                      = reg_out.n_meth[c] * reg_out.mfracs[c][2]
            /\ reg_out.n_total[c] = 0 => IsNaN(reg_out.mfracs[c])

\* C3 happens: a call returned a cell with a proper fraction (methylated and
\* unmethylated calls both counted) and a cell without any call
C3_Witness ==
    /\ reg_call.fn = "stats"
    /\ StoreInvariant(reg_mat, reg_mat.shape[2])
    /\ \E c \in 1..reg_mat.shape[2] :
         reg_out.n_meth[c] > 0 /\ reg_out.n_meth[c] < reg_out.n_total[c]
    /\ \E c \in 1..reg_mat.shape[2] : reg_out.n_total[c] = 0

\* the position (row) that holds the k-th stored entry of a store
RowOfEntry(mat, k) ==
    CHOOSE r \in 0..(mat.shape[1] - 1) :
        At(mat.indptr, r) < k /\ k <= At(mat.indptr, r + 1)

\* the stored entries of cell c at the positions start..end of a store, end
\* included, as far as the chromosome reaches
EntriesOfCellIn(mat, c, start, end) ==
    {k \in 1..Len(mat.data) :
        /\ mat.indices[k] = c
        /\ start <= RowOfEntry(mat, k)
        /\ RowOfEntry(mat, k) <= end}

\* the sum of the track's values at the positions of the entries in es
RECURSIVE TrackSumOver(_, _, _)
TrackSumOver(mat, track, es) ==
    IF es = {} THEN RatInt(0)
    ELSE LET k == CHOOSE x \in es : TRUE
         IN  RatAdd(track[RowOfEntry(mat, k)],
                    TrackSumOver(mat, track, es \ {k}))

\* (M_c - S_c) / (n_c + 1) for cell c, NaN when c has no entry
ExpectedResidual(mat, track, c, start, end) ==
    LET es == EntriesOfCellIn(mat, c, start, end)
        n_c == Cardinality(es)
        M_c == Cardinality({k \in es : mat.data[k] = 1})
        S_c == TrackSumOver(mat, track, es)
    IN  IF n_c = 0 THEN NaN
        ELSE RatDiv(RatSub(RatInt(M_c), S_c), RatInt(n_c + 1))

\* C4: for every interval start..end (end included) and every cell c,
\* _calc_mean_shrunken_residuals returns NaN when c has no entry in the
\* interval and (M_c - S_c) / (n_c + 1) otherwise: n_c the number of entries
\* of c in the interval, M_c the number of its methylated calls there, S_c the
\* sum of the Smoothed Track at the positions of its entries.
C4_ShrunkenResidualFormula ==
    reg_call.fn = "resid" =>
        /\ ~reg_out.raised
        /\ \A c \in 1..reg_mat.shape[2] :
             reg_out.resid[c] =
                 ExpectedResidual(reg_mat, reg_smoothed, c - 1,
                                  reg_call.start, reg_call.end)

\* C4 happens: a call returned a defined residual other than zero for a cell
\* with two entries in the interval, and NaN for a cell without entries
C4_Witness ==
    /\ reg_call.fn = "resid"
    /\ \E c \in 1..reg_mat.shape[2] :
         /\ Cardinality(EntriesOfCellIn(reg_mat, c - 1, reg_call.start,
                                        reg_call.end)) = 2
         /\ ~IsNaN(reg_out.resid[c])
         /\ reg_out.resid[c][1] # 0
    /\ \E c \in 1..reg_mat.shape[2] :
         /\ EntriesOfCellIn(reg_mat, c - 1, reg_call.start, reg_call.end) = {}
         /\ IsNaN(reg_out.resid[c])

\* the store of Scenario 1: 3 cells, calls at position 10 (cell 0 methylated,
\* cell 1 unmethylated) and position 20 (cell 0 methylated)
Scenario1Store ==
    coo_to_csr(<<<<10, 0, 1>>, <<10, 1, -1>>, <<20, 0, 1>>>>, 21, 3)

Scenario1Called ==
    /\ reg_mat = Scenario1Store
    /\ reg_call = [fn |-> "stats", start |-> 5, end |-> 25]

\* C8, as the code has it: in Scenario 1 the region from 5 to 25 gives
\* n_total = [2,1,0] and n_meth = [2,0,0]; both calls of cell 0 are
\* methylated calls.
C8_Scenario1Counts ==
    Scenario1Called =>
        /\ reg_out.n_total = <<2, 1, 0>>
        /\ reg_out.n_meth = <<2, 0, 0>>

\* C8 happens: the region statistics of Scenario 1 were computed
C8_Witness ==
    /\ Scenario1Called
    /\ Len(reg_out.n_total) = 3

\* C8 as stated: n_total = [2,1,0] and n_meth = [1,0,0]
C8_AsStated ==
    Scenario1Called =>
        /\ reg_out.n_total = <<2, 1, 0>>
        /\ reg_out.n_meth = <<1, 0, 0>>

-----------------------------------------------------------------------------
(* Properties of _find_peaks *)

\* window k of the call has a variance above the threshold
HighWindow(k) == RatGt(fp_vars[k], fp_cutoff)

\* the extended end of window a reaches the extended start of window b
BoundariesTouch(a, b) ==
    fp_centers[a] + fp_half_bw >= fp_centers[b] - fp_half_bw

\* windows a < b are high, at most one window lies between them, and that
\* window is below the threshold with its extended end touching b
HighPairAcrossDip(a, b) ==
    /\ HighWindow(a)
    /\ HighWindow(b)
    /\ \/ b = a + 1
       \/ /\ b = a + 2
          /\ ~HighWindow(a + 1)
          /\ BoundariesTouch(a + 1, b)

\* C5: a window above the threshold, met while not in a peak, whose start
\* pos - half_bw is at or before the end of the last closed peak, records no
\* new start and discards that end; and in the result two high windows with at
\* most one below-threshold window between them whose extended boundaries
\* touch lie in one and the same peak.
C5_TouchingPeaksAreMerged ==
    /\ [][(/\ fp_pc = "loop"
           /\ fp_i' = fp_i + 1
           /\ HighWindow(fp_i + 1)
           /\ ~in_peak
           /\ peak_ends # <<>>
           /\ Last(peak_ends) >= fp_centers[fp_i + 1] - fp_half_bw)
            => /\ peak_starts' = peak_starts
               /\ peak_ends' = Front(peak_ends)
               /\ in_peak']_vars
    /\ [](fp_pc = "returned" =>
            \A a, b \in 1..Len(fp_vars) :
                HighPairAcrossDip(a, b) =>
                    \E k \in 1..Len(peak_starts) :
                        /\ peak_starts[k] <= fp_centers[a]
                        /\ fp_centers[b] <= peak_ends[k])

\* C5 happens: two high windows around one touching dip were returned as
\* one peak
C5_Witness ==
    /\ fp_pc = "returned"
    /\ Len(peak_starts) = 1
    /\ fp_half_bw > 0
    /\ \E a \in 1..(Len(fp_vars) - 2) :
         HighPairAcrossDip(a, a + 2) /\ ~HighWindow(a + 1)

\* C6: the peaks _find_peaks returns, which scan writes in that order, are
\* ascending and disjoint: each peak's start is strictly greater than the end
\* of the peak before it.
C6_PeaksAscendingDisjoint ==
    fp_pc = "returned" =>
        /\ Len(peak_starts) = Len(peak_ends)
        /\ \A k \in 2..Len(peak_starts) : peak_starts[k] > peak_ends[k - 1]

\* C6 happens: a call with a NaN variance returned three peaks
C6_Witness ==
    /\ fp_pc = "returned"
    /\ Len(peak_starts) = 3
    /\ \E k \in 1..Len(fp_vars) : IsNaN(fp_vars[k])

\* Scenario 3: variances 0.1, 0.6, 0.55, 0.05, 0.6 and threshold 0.5
Scenario3Returned ==
    /\ fp_pc = "returned"
    /\ fp_vars = <<<<1, 10>>, <<3, 5>>, <<11, 20>>, <<1, 20>>, <<3, 5>>>>
    /\ fp_cutoff = <<1, 2>>

\* one peak from the start of window 2 to the last window
OneMergedPeak ==
    /\ peak_starts = <<fp_centers[2] - fp_half_bw>>
    /\ peak_ends = <<fp_centers[5]>>

\* two peaks: windows 2 to 4, and window 5
TwoPeaks ==
    /\ peak_starts = <<fp_centers[2] - fp_half_bw, fp_centers[5] - fp_half_bw>>
    /\ peak_ends = <<fp_centers[4] + fp_half_bw, fp_centers[5]>>

\* C9, as the code has it: Scenario 3 gives one merged peak when the step size
\* is at most twice the half-bandwidth, and two peaks when it is larger.
C9_Scenario3MergesWhenTouching ==
    Scenario3Returned =>
        IF fp_centers[2] - fp_centers[1] <= 2 * fp_half_bw
        THEN OneMergedPeak
        ELSE TwoPeaks

\* C9 happens: Scenario 3 returned two peaks
C9_Witness ==
    /\ Scenario3Returned
    /\ Len(peak_starts) = 2

\* C9 as stated: Scenario 3 gives exactly one merged peak for every step size
\* and every half-bandwidth
C9_AsStated == Scenario3Returned => OneMergedPeak

-----------------------------------------------------------------------------
(* Properties of the smoother *)

\* Scenario 2: bandwidth 4, no weighting, raw fractions 1.0 at position 10
\* and 0.0 at position 12, and the track is written
Scenario2Smoothed ==
    /\ sm_pc = "returned"
    /\ sm_bandwidth = 4
    /\ Len(mfracs) > 12
    /\ At(mfracs, 10) = RatInt(1)
    /\ At(mfracs, 12) = RatInt(0)

\* C10, as the code has it: in Scenario 2 the window of position 10 is the
\* positions 8 to 11; position 12 is outside it and contributes nothing, and
\* the smoothed value of position 10 is its own raw fraction, 1.0.
C10_Scenario2WindowExcludesUpperEnd ==
    Scenario2Smoothed =>
        /\ smooth_window(mfracs, 10, sm_hbw) = Slice(mfracs, 8, 12)
        /\ smoothed[10] = RatInt(1)

\* C10 happens: the track of Scenario 2 was written, with a value for
\* position 10 and for position 12
C10_Witness ==
    /\ Scenario2Smoothed
    /\ {10, 12} \subseteq DOMAIN smoothed

\* C10 as stated: in Scenario 2 the smoothed value of position 10 is a blend
\* of 1.0 and 0.0, that is, lies strictly between the two
C10_AsStated ==
    Scenario2Smoothed =>
        /\ RatGt(smoothed[10], RatInt(0))
        /\ RatGt(RatInt(1), smoothed[10])

-----------------------------------------------------------------------------
(* Properties of scan *)

\* the per-window variances of the first chromosome processed
FirstChromVariances ==
    LET d == data_dir[chrom_paths[1]]
        rows == covered_rows(d.mat)
        hb == scan_bandwidth \div 2
    IN  move_windows(rows[1] + hb + 1, Last(rows) - hb - 1, scan_stepsize, hb,
                     d.mat, smooth_whole_chrom(d.mat, TrackBandwidth)).smoothed_var

\* C7: the variance threshold is assigned once.  It changes only from unset,
\* only on the first chromosome processed, after that chromosome's windows
\* are computed and before its peaks are called, to the (1 - var_threshold)
\* quantile of that chromosome's window variances; the chromosomes are
\* processed in non-increasing order of file size, so the first is one of
\* maximal size; the threshold is set whenever peaks are called or a
\* chromosome is finished; and every call of _find_peaks, the first included,
\* is given that value.
C7_ThresholdFromFirstChromosomeOnly ==
    /\ [][var_threshold_value' # var_threshold_value =>
            /\ var_threshold_value = None
            /\ scan_i = 0
            /\ scan_pc = "threshold"
            /\ scan_pc' = "peaks"
            /\ window_variances = FirstChromVariances
            /\ var_threshold_value' =
                 nanquantile(FirstChromVariances,
                             RatSub(RatInt(1), scan_var_threshold))]_vars
    /\ [](scan_pc \notin {"idle", "start"} =>
            /\ Range(chrom_paths) = DOMAIN data_dir
            /\ \A a, b \in 1..Len(chrom_paths) :
                 a < b => data_dir[chrom_paths[a]].size
                            >= data_dir[chrom_paths[b]].size)
    /\ []((scan_pc \in {"peaks", "write", "done"} \/ scan_i > 0) =>
            var_threshold_value # None)
    /\ [][(scan_pc = "peaks" /\ scan_pc' # "peaks") =>
            /\ fp_cutoff' = var_threshold_value
            /\ fp_vars' = window_variances
            /\ var_threshold_value' = var_threshold_value]_vars

\* C7 happens: two chromosomes were scanned, the threshold is a number, peaks
\* were written, and the second chromosome's own quantile is a different
\* number
C7_Witness ==
    /\ scan_pc = "done"
    /\ Len(chrom_paths) = 2
    /\ output # <<>>
    /\ ~IsNaN(var_threshold_value)
    /\ var_threshold_value = nanquantile(FirstChromVariances,
                                         RatSub(RatInt(1), scan_var_threshold))
    /\ ~IsNaN(nanquantile(window_variances,
                          RatSub(RatInt(1), scan_var_threshold)))
    /\ var_threshold_value # nanquantile(window_variances,
                                         RatSub(RatInt(1), scan_var_threshold))

\* Scenario 2 with its third position: bandwidth 4, no weighting, covered
\* positions 10, 12 and 20 with raw fractions 1.0 at 10 and 0.0 at 12
Scenario2WithIsolated ==
    /\ Scenario2Smoothed
    /\ cpg_pos = <<10, 12, 20>>

\* C11: in Scenario 2 the smoothed value of position 20 is NaN.  (Position 20
\* is the last row of its store: its window is cut at the chromosome end, the
\* kernel does not fit it, and the position is given NaN.)
C11_Scenario2IsolatedIsNaN ==
    Scenario2WithIsolated => (20 \in DOMAIN smoothed /\ IsNaN(smoothed[20]))

\* C11 happens: the track of Scenario 2 with position 20 was written
C11_Witness ==
    /\ Scenario2WithIsolated
    /\ DOMAIN smoothed = {10, 12, 20}

\* C19: a covered position p gets NaN only when p < H, H the half-bandwidth;
\* every covered position p >= H gets a computed value.  Violated: the last
\* rows of a chromosome get NaN when H >= 2, and every position gets NaN when
\* the bandwidth is odd.
C19_NaNOnlyNearStart ==
    sm_pc = "returned" =>
        \A p \in DOMAIN smoothed : IsNaN(smoothed[p]) => p < sm_hbw

\* the lines staged for a chromosome so far (none when its stream is unopened)
StagedLines(disk, chrom) == IF chrom \in DOMAIN disk THEN disk[chrom] ELSE <<>>

\* C12: every clean record (not both counts nonzero) read for a chromosome is
\* staged as one line of that chromosome's stream, and the store assembled
\* from the stream has as many entries as the stream has lines, so that the
\* entry count of a store is the number of clean records read for its
\* chromosome.  Violated: records of one file at one position share an entry.
C12_EntryCountIsCleanRecordCount ==
    /\ [][(line_n' = line_n + 1 /\ ~BothCountsNonzero(line', coverage))
            => Len(StagedLines(coo_disk', line'.chrom))
                 = Len(StagedLines(coo_disk, line'.chrom)) + 1]_vars
    /\ [][\A chrom \in (DOMAIN npz') \ (DOMAIN npz) :
            Len(npz'[chrom].data) = Len(coo_disk[chrom])]_vars

\* the cell identifiers of the input files, in input order
InputCellNames == [k \in 1..Len(input_files) |-> CellNameOf(input_files[k])]

\* two input files yield the same cell identifier
InputNamesCollide ==
    \E i, j \in 1..Len(input_files) :
        i < j /\ CellNameOf(input_files[i]) = CellNameOf(input_files[j])

\* C13: after prepare the Cell Index lists the cells in input-file order
\* without duplicates and every store has as many columns as the Cell Index
\* has lines; a record read from the k-th file (k from 0) is staged with
\* column k, and a store holds its entries at the staged coordinates.
C13_CellIndexDefinesColumns ==
    /\ [](prep_pc = "done" =>
            /\ column_header = InputCellNames
            /\ ~InputNamesCollide
            /\ \A chrom \in DOMAIN npz :
                 npz[chrom].shape[2] = Len(column_header))
    /\ [][(line_n' = line_n + 1 /\ coo_disk' # coo_disk)
            => /\ cell_n' = cell_n
               /\ Last(coo_disk'[line'.chrom])[1] = line'.pos
               /\ Last(coo_disk'[line'.chrom])[2] = cell_n]_vars
    /\ [][\A chrom \in (DOMAIN npz') \ (DOMAIN npz) :
            /\ StoredCoords(npz'[chrom]) = StagedCoords(coo_disk[chrom])
            /\ npz'[chrom].shape[2] = Len(input_files)]_vars

\* C13 happens: prepare finished on two files and one store holds entries of
\* both, in columns 0 and 1
C13_Witness ==
    /\ prep_pc = "done"
    /\ Len(column_header) = 2
    /\ \E chrom \in DOMAIN npz : {0, 1} \subseteq Range(npz[chrom].indices)

\* C16: when two input files yield the same cell identifier, prepare goes
\* from its start to an error; no record is ever read and no staging stream,
\* store or Cell Index (written together with the summary) is ever created.
C16_DuplicateCellNamesAreFatal ==
    /\ [](InputNamesCollide =>
            /\ prep_pc \in {"start", "error"}
            /\ cell_n = 0
            /\ line_n = 0
            /\ line = NoLine
            /\ coo_files = <<>>
            /\ coo_disk = <<>>
            /\ chrom_sizes = <<>>
            /\ npz = <<>>
            /\ column_header = <<>>)
    /\ [][(InputNamesCollide /\ prep_pc = "start") => prep_pc' = "error"]_vars

\* C16 happens: prepare failed on two files with the same cell identifier
C16_Witness ==
    /\ InputNamesCollide
    /\ prep_pc = "error"


-----------------------------------------------------------------------------
(* Properties of matrix and of scan's prerequisites *)

\* the output rows written for a chromosome (the header names none)
RowsOf(chrom) == {k \in 1..Len(mx_output) : mx_output[k][1] = chrom}

\* C14: a chromosome that a bed entry names and that has no persisted
\* store is warned about, contributes no output row, and does not make the
\* run abort -- here: the run never ends in the error raised when no region
\* was counted
C14_MissingStoreIsSkipped ==
    \A c \in unknown_chroms :
        /\ c \in Range(mx_warnings)
        /\ RowsOf(c) = {}
        /\ mx_pc # "no_regions"

\* among the first n entries, a chromosome comes back after an entry of
\* another chromosome
Reappears(rs, n) ==
    \E i, j, k \in 1..n :
        /\ i < j /\ j < k
        /\ rs[i].chrom = rs[k].chrom
        /\ rs[j].chrom # rs[i].chrom

\* C17: matrix ends with the not-sorted error exactly on the bed files in
\* which a chromosome reappears after a region of another chromosome: a run
\* that read every entry without that error had each chromosome's regions
\* contiguous, and the error is raised only at a reappearing chromosome
C17_UnsortedInputIsFatal ==
    /\ mx_pc \in {"done", "no_regions"} => ~Reappears(regions, Len(regions))
    /\ mx_pc = "not_sorted" => Reappears(regions, mx_i + 1)

\* scan is about to load a chromosome whose Smoothed Track is missing
ScanTrackMissing ==
    /\ scan_pc = "load"
    /\ scan_i < Len(chrom_paths)
    /\ ~data_dir[chrom_paths[scan_i + 1]].has_track

\* matrix is about to read the first entry of a chromosome whose store
\* exists and whose Smoothed Track is missing
MatrixTrackMissing ==
    /\ mx_pc = "loop"
    /\ mx_i < Len(regions)
    /\ LET c == regions[mx_i + 1].chrom
       IN  /\ c \notin observed_chroms
           /\ mx_dir[c].has_store
           /\ ~mx_dir[c].has_track

\* the chromosomes scan finished before the one it is at
ScannedChroms == {chrom_paths[k] : k \in 1..scan_i}

\* C15: a missing Smoothed Track aborts scan, and matrix when the store
\* exists, at that chromosome: the step that reaches the chromosome ends in
\* the error without evaluating a window or a region, nothing is written
\* afterwards, and the output holds records of earlier chromosomes and
\* earlier regions only
C15_MissingTrackIsFatal ==
    /\ [][ScanTrackMissing =>
            /\ scan_pc' = "error"
            /\ UNCHANGED <<output, genomic_positions, window_variances>>]_vars
    /\ [][MatrixTrackMissing =>
            /\ mx_pc' = "no_track"
            /\ UNCHANGED <<n_regions, n_empty_regions>>
            /\ RowsOf(regions[mx_i + 1].chrom)' = {}]_vars
    /\ [][(scan_pc = "error" => output' = output)
            /\ (mx_pc = "no_track" => mx_output' = mx_output)]_vars
    /\ [](scan_pc = "error" =>
            \A k \in 1..Len(output) : output[k][1] \in ScannedChroms)
    /\ [](mx_pc = "no_track" =>
            \A k \in 2..Len(mx_output) :
                \E j \in 1..mx_i :
                    /\ mx_output[k][1] = regions[j].chrom
                    /\ mx_output[k][2] = regions[j].start
                    /\ mx_output[k][3] = regions[j].end)

\* scan wrote the peaks of its first chromosome and stopped at the second,
\* whose track is missing
C15_Witness ==
    /\ scan_pc = "error"
    /\ scan_i = 1
    /\ output # <<>>
    /\ ~data_dir[chrom_paths[2]].has_track


-----------------------------------------------------------------------------
(* Properties of _move_windows *)

\* the variance over the cells of the residuals taken from the rows
\* first..last of the scanned store, last included
VarianceOverRows(first, last) ==
    nanvar([c \in 1..scan_mat.shape[2] |->
               ExpectedResidual(scan_mat, smoothed_cpg_vals, c - 1, first, last)])

\* C20: the variance _move_windows gives the window centred at c is taken
\* over the rows p with c - H <= p < c + H and no others: the row c + H
\* never contributes
C20_WindowIsHalfOpen ==
    scan_pc \in {"threshold", "peaks", "write"} =>
        \A i \in 1..Len(genomic_positions) :
            LET c == genomic_positions[i]
                H == scan_bandwidth \div 2
            IN  window_variances[i] = VarianceOverRows(c - H, c + H - 1)


-----------------------------------------------------------------------------
(* Properties of the region statistics engine queried twice *)

-----------------------------------------------------------------------------
(* Further properties of _find_peaks *)

\* C21: a peak closed by a window at or below the threshold (NaN included)
\* at position q gets the end q + half_bw; a peak still open after the last
\* window gets the last window's position itself as its end
C21_ClosedEndExtendedOpenEndRaw ==
    /\ [][(/\ fp_pc = "loop"
           /\ fp_i' = fp_i + 1
           /\ in_peak
           /\ ~HighWindow(fp_i + 1))
            => /\ peak_ends' = Append(peak_ends, fp_centers[fp_i + 1] + fp_half_bw)
               /\ ~in_peak']_vars
    /\ [][(fp_pc = "loop" /\ fp_pc' # "loop" /\ in_peak)
            => peak_ends' = Append(peak_ends, Last(fp_centers))]_vars

\* C21 happens: a call with a half-bandwidth above zero returned a peak
\* closed by a low window and a peak still open at the last window
C21_Witness ==
    /\ fp_pc = "returned"
    /\ in_peak
    /\ fp_half_bw > 0
    /\ Len(peak_ends) = 2
    /\ peak_ends[2] = Last(fp_centers)
    /\ \E k \in 1..Len(fp_vars) :
         ~HighWindow(k) /\ peak_ends[1] = fp_centers[k] + fp_half_bw

\* window k closes a peak: it is at or below the threshold and the window
\* before it is above
ClosingWindow(k) == k > 1 /\ HighWindow(k - 1) /\ ~HighWindow(k)

\* C24: no end is moved backwards: every end q + half_bw recorded at a
\* closing window lies, in the result, at or before the end of the peak that
\* holds the window before it, whether that end was kept or discarded by a
\* merge
C24_MergeNeverMovesEndBack ==
    fp_pc = "returned" =>
        \A k \in 1..Len(fp_vars) :
            ClosingWindow(k) =>
                \E j \in 1..Len(peak_starts) :
                    /\ peak_starts[j] <= fp_centers[k - 1]
                    /\ fp_centers[k - 1] <= peak_ends[j]
                    /\ peak_ends[j] >= fp_centers[k] + fp_half_bw

\* C25: while the windows are processed there is one more start than ends
\* when in a peak and as many otherwise, in_peak tells whether the window
\* processed last was above the threshold, and the final assertion holds
C25_StartsAndEndsBalance ==
    /\ fp_pc = "loop" =>
          /\ Len(peak_starts) - Len(peak_ends) = (IF in_peak THEN 1 ELSE 0)
          /\ in_peak <=> (fp_i > 0 /\ HighWindow(fp_i))
    /\ fp_pc # "assertion_failed"
    /\ fp_pc = "returned" => Len(peak_starts) = Len(peak_ends)

\* C25 happens: a call with a NaN variance merged two high windows across a
\* dip and returned with the peak still open
C25_Witness ==
    /\ fp_pc = "returned"
    /\ in_peak
    /\ fp_half_bw > 0
    /\ Len(peak_starts) = 1
    /\ \E k \in 1..Len(fp_vars) : IsNaN(fp_vars[k])
    /\ \E a \in 1..(Len(fp_vars) - 2) :
         HighPairAcrossDip(a, a + 2) /\ ~HighWindow(a + 1)


-----------------------------------------------------------------------------
(* Further properties of the region statistics engine *)

\* the rows of start..end, as far as the chromosome reaches, that hold at
\* least one stored entry
CoveredRowsIn(mat, start, end) ==
    {r \in start..end : r < mat.shape[1] /\ row_nnz(mat, r) > 0}

UndefinedTouched(mat, track, c, start, end) ==
    {k \in EntriesOfCellIn(mat, c, start, end) : IsNaN(track[RowOfEntry(mat, k)])}

\* C26: with the track smooth writes for the store, the residual of a cell
\* is defined exactly when the cell has an entry in the interval and the
\* track is defined at the position of every one of its entries there
C26_ResidualDefinedIffTrackDefined ==
    reg_call.fn = "resid" =>
        /\ ~reg_out.raised
        /\ \A c \in 1..reg_mat.shape[2] :
             ~IsNaN(reg_out.resid[c]) <=>
                 /\ EntriesOfCellIn(reg_mat, c - 1, reg_call.start,
                                    reg_call.end) # {}
                 /\ UndefinedTouched(reg_mat, reg_smoothed, c - 1,
                                     reg_call.start, reg_call.end) = {}

\* C26 happens: of two cells with entries in the interval, one touches a
\* single position without a defined track value, next to a position with
\* one, and has no residual; the other has a residual
C26_Witness ==
    /\ reg_call.fn = "resid"
    /\ \E c \in 1..reg_mat.shape[2] :
         /\ Cardinality(EntriesOfCellIn(reg_mat, c - 1, reg_call.start,
                                        reg_call.end)) = 2
         /\ Cardinality(UndefinedTouched(reg_mat, reg_smoothed, c - 1,
                                         reg_call.start, reg_call.end)) = 1
         /\ IsNaN(reg_out.resid[c])
    /\ \E c \in 1..reg_mat.shape[2] : ~IsNaN(reg_out.resid[c])


-----------------------------------------------------------------------------
(* Properties of the parallel window loop *)

\* C22: in every interleaving no slot is written twice and a slot is
\* written only by the evaluation of its own window, the shared arrays and
\* the smoothed-track mapping stay what they were given as, and at the
\* return every slot was written once and the array is the one the
\* sequential loop produces
C22_ParallelWindowsWriteOwnSlots ==
    /\ \A s \in DOMAIN par_writes :
          /\ Len(par_writes[s]) <= 1
          /\ \A k \in 1..Len(par_writes[s]) : par_writes[s][k] = s
    /\ par_mat = par_mat0
    /\ par_smoothed = par_smoothed0
    /\ par_pc = "returned" =>
          /\ \A s \in DOMAIN par_writes : par_writes[s] = <<s>>
          /\ par_smoothed_var =
                move_windows(windows_start(par_mat0, par_half_bw),
                             windows_end(par_mat0, par_half_bw), 1,
                             par_half_bw, par_mat0, par_smoothed0).smoothed_var

\* C22 happens: two workers shared three windows and the array returned
\* holds a variance and a NaN
C22_Witness ==
    /\ par_pc = "returned"
    /\ Len(par_windows) = 3
    /\ Cardinality(Range(par_owner)) = 2
    /\ \E i \in 1..3 : IsNaN(par_smoothed_var[i])
    /\ \E i \in 1..3 : ~IsNaN(par_smoothed_var[i])

=============================================================================
